---- MODULE Spec2Model ----
(***************************************************************************)
(* A model of evergrid's layout engine: the item recycling of LayoutSource *)
(* (src/src/LayoutSource.ts) and the update batching, gesture and scroll   *)
(* state of EvergridLayout (src/unnamed/part_000).                         *)
(*                                                                         *)
(* Eleven specifications share the variables:                              *)
(*   SpecSource     one layout source driven by its public operations,     *)
(*                  with application callbacks that do not call back in;   *)
(*   SpecReentrant  the same source, with callbacks that call updateItems  *)
(*                  again while an update is in progress;                  *)
(*   SpecCoord      the coordinator's update blocks, latches and listeners *)
(*                  from its construction;                                 *)
(*   SpecPan        the coordinator's gestures, scrolls and animations     *)
(*                  once its view is laid out;                             *)
(*   SpecGeom       the coordinate conversions on drawn coordinator states;*)
(*   SpecConfigure  a layout source configured and unconfigured between    *)
(*                  its updates;                                           *)
(*   SpecMount      the coordinator mounted and unmounted with its layout  *)
(*                  sources and the memory warning;                        *)
(*   SpecPlace      where a configured layout source places its items in   *)
(*                  the container;                                         *)
(*   SpecScale      the scale emissions of the coordinator and of a layout *)
(*                  source;                                                *)
(*   SpecPress      the gestures of SpecPan with touches that start while  *)
(*                  the responder holds the gesture;                       *)
(*   SpecReuse      a layout source updated with any options or through    *)
(*                  setNeedsUpdate, by a subclass that may pair a removal  *)
(*                  with an addition, at the times of a clock that may     *)
(*                  stand still.                                           *)
(***************************************************************************)
EXTENDS Integers, Sequences, FiniteSets, TLC

(***************************************************************************)
(* Bounds of the model.                                                    *)
(***************************************************************************)
\* Number of item records that can be alive (visible or pooled) at once.
MaxItems == 2
\* Most calls of updateItems an application callback makes while an update runs.
MaxReentry == 2
\* Latest time, in the model's clock, a render nonce is set to.
MaxClock == 2
\* Longest pool explored (a pool outgrows MaxItems only when a record is pooled twice).
MaxQueue == 2

\* The index space T of the layout source modelled.
Indexes == {1, 2}
ItemIds == 1..MaxItems

\* JavaScript's undefined, for a missing item record and a missing index.
undefined == 0

(***************************************************************************)
(* Layout source: state.                                                   *)
(***************************************************************************)
VARIABLES
    props,          \* LayoutSource.props (fixed after construction)
    visible,        \* the subclass's visible-index map: index -> item record id
    items,          \* the item records (heap): id -> fields
    _itemQueues,    \* reuseID -> stack of retired record ids
    _updating,      \* LayoutSource._updating
    needsRender,    \* view.needsRender
    trace,          \* what the last operation did, in order (history)
    call,           \* the last operation and its arguments (history)
    sourceCopies,   \* LayoutSource._itemSize, _origin, _scale, _insets
    sourceValues,   \* the values of itemSize$, origin$, scale$, insets$
    renders,        \* the shouldRenderItem calls of the last operation (history)
    placed,         \* the last item layout asked of the source (history)
    _animatedSubscriptions, \* LayoutSource._animatedSubscriptions: id -> animated value
    animatedListeners,      \* the listeners the animated values of the source hold
    uniqueId                \* the last listener id the animated values gave out

srcVars ==
    <<props, visible, items, _itemQueues, _updating, needsRender, trace, call,
      sourceCopies, sourceValues, placed, renders, _animatedSubscriptions,
      animatedListeners, uniqueId>>

(***************************************************************************)
(* Coordinator (EvergridLayout): state.  An Animated.ValueXY is modelled   *)
(* by the value it holds (the ...Value variables); the plain fields are    *)
(* the copies its listeners keep.                                          *)
(***************************************************************************)
VARIABLES
    _updateDepth,               \* EvergridLayout._updateDepth
    _hasContainerSize,          \* latch of update()
    _hasScale,                  \* latch of update()
    _containerSize,             \* last container size accepted
    _scale,                     \* last scale accepted
    _anchor,                    \* last anchor accepted, in halves (1 is 0.5)
    _locationOffsetBase,        \* copy of _locationOffsetBase$
    locationOffsetBaseValue,    \* value of _locationOffsetBase$
    _viewOffset,                \* copy of viewOffset$
    viewOffsetValue,            \* value of viewOffset$
    panTargetValue,             \* value of a custom panTarget (unused by default)
    _panVelocty,                \* copy of _panVelocty$
    _panStarted,
    _panDefaultPrevented,
    _pressInGestureState,       \* dx, dy of the gesture in progress
    _longPressTimer,            \* the timer the field holds: undefined, pending or fired
    longPressTimers,            \* the long press timeouts the host has pending
    _isLongPress,
    _descelerationAnimation,    \* the animation held, NoAnimation for undefined
    _interactionHandle,         \* 0 or the handle held
    _layoutSources,             \* registered layout sources, in order
    responder,                  \* TRUE while the pan responder holds a gesture
    options,                    \* the constructor's options (fixed)
    journal,                    \* what the last operation did, in order (history)
    request,                    \* the last operation and its arguments (history)
    block,                      \* the update block open or last closed (history)
    converted,                  \* the last coordinate conversion asked (history)
    _memoryWarningListener,     \* TRUE while the field holds the listener
    memoryWarningHandlers,      \* the handlers AppState holds for 'memoryWarning'
    layoutSubscribed,           \* TRUE while the constructor's listeners are attached
    mounted,                    \* the last of componentDidMount, componentWillUnmount (history)
    layoutSourceObjects         \* the layout sources the application made: id -> state

layoutVars ==
    <<_updateDepth, _hasContainerSize, _hasScale, _containerSize, _scale, _anchor,
      _locationOffsetBase, locationOffsetBaseValue, _viewOffset, viewOffsetValue,
      panTargetValue, _panVelocty, _panStarted, _panDefaultPrevented,
      _pressInGestureState, _longPressTimer, longPressTimers, _isLongPress,
      _descelerationAnimation,
      _interactionHandle, _layoutSources, responder, options, journal, request, block,
      converted, _memoryWarningListener, memoryWarningHandlers, layoutSubscribed, mounted,
      layoutSourceObjects>>

\* LayoutSource.id of the one source modelled: String(++_layoutSourceCounter).
SourceId == "1"

\* kDefaultProps.showDuration
kDefaultShowDuration == 150

ReuseIDs == {"", "A", "B", SourceId}

Point(x, y) == [x |-> x, y |-> y]

zeroPoint == Point(0, 0)

\* ./const's kZeroInsets, as the constructor lays insets$ out.
kZeroInsets == [top |-> 0, right |-> 0, bottom |-> 0, left |-> 0]

\* The props that place the items: stickyEdge ("undefined" when not given) and
\* what itemSize, origin, scale and insets resolve to for the view.
PlainPlacement ==
    [stickyEdge |-> "undefined", itemSize |-> Point(1, 1), origin |-> zeroPoint,
     scale |-> Point(1, 1), insets |-> kZeroInsets]

\* The props.getReuseID callbacks the model draws from; "undefined" is no callback.
propsGetReuseID(name, index) ==
    CASE name = "parity" -> IF index % 2 = 1 THEN "A" ELSE "B"
      [] name = "firstEmpty" -> IF index = 1 THEN "" ELSE "A"
      [] OTHER -> ""

\* The constructor's props: { ...kDefaultProps, ...props }.
PropsSet ==
    { r @@ PlainPlacement : r \in
        { [getReuseID |-> "parity", reuseID |-> "undefined", showDuration |-> kDefaultShowDuration,
           shouldRenderItem |-> "moved"],
          [getReuseID |-> "firstEmpty", reuseID |-> "undefined", showDuration |-> 0,
           shouldRenderItem |-> "always"],
          [getReuseID |-> "undefined", reuseID |-> "A", showDuration |-> kDefaultShowDuration,
           shouldRenderItem |-> "never"],
          [getReuseID |-> "undefined", reuseID |-> "undefined", showDuration |-> 0,
           shouldRenderItem |-> "moved"] } }

\* _itemSize, _origin, _scale and _insets as the constructor leaves them.
NewCopies ==
    [itemSize |-> Point(1, 1), origin |-> zeroPoint, scale |-> Point(1, 1),
     insets |-> kZeroInsets]

\* The values of itemSize$, origin$, scale$ and insets$ as the constructor
\* leaves them.
NewValues ==
    [itemSize |-> zeroPoint, origin |-> zeroPoint, scale |-> Point(1, 1),
     insets |-> kZeroInsets]

\* An unused slot of the heap.
FreeItem ==
    [index |-> undefined, reuseID |-> "", contentLayout |-> undefined, opacity |-> 0,
     renderNonce |-> 0]

Event(e, index, item, depth) == [e |-> e, index |-> index, item |-> item, depth |-> depth]

\* A callback that does nothing.
NoPlan == [at |-> 0, attempts |-> 0, catches |-> TRUE, target |-> {}]

RECURSIVE SetToSeq(_)
SetToSeq(S) ==
    IF S = {} THEN <<>>
    ELSE LET m == CHOOSE x \in S : \A y \in S : x <= y
         IN <<m>> \o SetToSeq(S \ {m})

RECURSIVE Perms(_)
Perms(S) ==
    IF S = {} THEN {<<>>}
    ELSE UNION { { <<x>> \o p : p \in Perms(S \ {x}) } : x \in S }

Range(f) == { f[x] : x \in DOMAIN f }

VisibleKeys(vis) == { i \in Indexes : vis[i] # undefined }

QueuedIds(queues) == UNION { Range(queues[k]) : k \in ReuseIDs }

\* The record ids neither visible nor pooled: garbage, free for a new record.
FreeIds(s) == ItemIds \ (Range(s.visible) \cup QueuedIds(s.queues))

(***************************************************************************)
(* Layout source: the methods, as functions of the source's state s.       *)
(* s.flow is the control flow out of a call: "run" (returned normally),    *)
(* "return" (updateItems returned early), "throw" (an exception is         *)
(* propagating); s.ret is the value returned; s.depth counts the           *)
(* updateItems calls on the stack.                                          *)
(***************************************************************************)
Emit(s, e, index, item) ==
    [s EXCEPT !.trace = Append(@, Event(e, index, item, s.depth))]

getReuseID(s, index) ==
    IF s.props.getReuseID # "undefined"
    THEN propsGetReuseID(s.props.getReuseID, index)
    ELSE IF s.props.reuseID # "undefined"
         THEN s.props.reuseID
         ELSE SourceId

\* The subclass's layout formula: a value that identifies the index laid out.
getItemContentLayout(index) == index

getVisibleItem(s, index) == s.visible[index]

setVisibleItem(s, index, item) == [s EXCEPT !.visible[index] = item]

beginUpdate(s) ==
    IF s.updating
    THEN [Emit(s, "throw Already updating", undefined, undefined)
            EXCEPT !.updating = FALSE, !.flow = "throw"]
    ELSE [Emit(s, "beginUpdate", undefined, undefined) EXCEPT !.updating = TRUE]

endUpdate(s) == [s EXCEPT !.updating = FALSE]

commitUpdate(s) == endUpdate(Emit(s, "commitUpdate", undefined, undefined))

cancelUpdate(s) == endUpdate(Emit(s, "cancelUpdate", undefined, undefined))

setNeedsRender(s) ==
    [Emit(s, "setNeedsRender", undefined, undefined) EXCEPT !.needsRender = TRUE]

RECURSIVE updateItems(_, _, _, _)

\* The default options of updateItems.
DefaultOptions == [queue |-> TRUE, dequeue |-> TRUE, create |-> FALSE, update |-> FALSE]

\* itemUpdates() of a subclass that yields the removals, then the additions.
orderedUpdates(vis, target) ==
    [ k \in 1..Cardinality(VisibleKeys(vis) \ target) |->
        [remove |-> SetToSeq(VisibleKeys(vis) \ target)[k], add |-> undefined] ]
    \o
    [ k \in 1..Cardinality(target \ VisibleKeys(vis)) |->
        [remove |-> undefined, add |-> SetToSeq(target \ VisibleKeys(vis))[k]] ]

\* An application callback (willShowItem, willHideItem) that calls
\* updateItems(view) plan.attempts times, catching what it throws or not.
\* The callback's try/catch around its call, when it has one.
callbackCatch(r, plan) ==
    IF r.flow = "throw" /\ plan.catches THEN [r EXCEPT !.flow = "run"] ELSE r

RECURSIVE callbackAttempts(_, _, _)
callbackAttempts(s, plan, n) ==
    IF n > plan.attempts \/ s.flow # "run" THEN s
    ELSE callbackAttempts(
             callbackCatch(updateItems(s, orderedUpdates(s.visible, plan.target),
                                       DefaultOptions, NoPlan),
                           plan),
             plan, n + 1)

willShowItem(s, item, plan) ==
    callbackAttempts(Emit(s, "willShowItem", undefined, item), plan, 1)

willHideItem(s, item, plan) ==
    callbackAttempts(Emit(s, "willHideItem", undefined, item), plan, 1)

\* updateItem after its call of willShowItem, which may have thrown.
updateItem_shown(told, item, index) ==
    IF told.flow # "run" THEN told
    ELSE setVisibleItem(told, index, item)

updateItem(s, item, index, isNew, plan) ==
    LET laid == [s EXCEPT !.items[item].contentLayout = getItemContentLayout(index)]
        showNow == IF ~isNew THEN TRUE ELSE s.props.showDuration <= 0
        shown == IF showNow THEN [laid EXCEPT !.items[item].opacity = 1] ELSE laid
    IN updateItem_shown(willShowItem(shown, item, plan), item, index)

createItem(s, index, plan) ==
    IF FreeIds(s) = {}
    THEN [s EXCEPT !.overflow = TRUE, !.flow = "throw"]
    ELSE LET id == CHOOSE x \in FreeIds(s) : \A y \in FreeIds(s) : x <= y
             made == [s EXCEPT !.items[id] =
                         [index |-> index, reuseID |-> getReuseID(s, index),
                          contentLayout |-> undefined, opacity |-> 0, renderNonce |-> 0]]
             done == updateItem(Emit(made, "createItem", index, id), id, index, TRUE, plan)
         IN [done EXCEPT !.ret = id]

\* Mutant: the pool gives back the record that has waited longest.
_dequeueItem_first(s, reuseID) ==
    LET queue == s.queues[reuseID]
    IN IF queue = <<>>
       THEN [s EXCEPT !.ret = undefined]
       ELSE [s EXCEPT !.queues[reuseID] = Tail(queue), !.ret = Head(queue)]

\* Mutant: the record is returned but stays in its pool.
_dequeueItem_peek(s, reuseID) ==
    LET queue == s.queues[reuseID]
    IN IF queue = <<>>
       THEN [s EXCEPT !.ret = undefined]
       ELSE [s EXCEPT !.ret = queue[Len(queue)]]

\* Mutant: an empty pool falls back on the pool of another reuse ID.
_dequeueItem_anyPool(s, reuseID) ==
    LET other == { k \in ReuseIDs : s.queues[k] # <<>> }
        from == IF s.queues[reuseID] # <<>> \/ other = {} THEN reuseID
                ELSE CHOOSE k \in other : TRUE
        queue == s.queues[from]
    IN IF queue = <<>>
       THEN [s EXCEPT !.ret = undefined]
       ELSE [s EXCEPT !.queues[from] = SubSeq(queue, 1, Len(queue) - 1),
                      !.ret = queue[Len(queue)]]

_dequeueItem(s, reuseID) ==
    LET queue == s.queues[reuseID]
    IN IF queue = <<>>
       THEN [s EXCEPT !.ret = undefined]
       ELSE [s EXCEPT !.queues[reuseID] = SubSeq(queue, 1, Len(queue) - 1),
                      !.ret = queue[Len(queue)]]

\* Mutant: the record is pushed whatever its reuse ID, the empty one included.
queueItem_pooled_always(dark, item) ==
    [dark EXCEPT !.queues[dark.items[item].reuseID] = Append(@, item), !.ret = TRUE]

\* queueItem once the record is hidden: it goes to the pool of its reuse ID.
queueItem_pooled(dark, item) ==
    [(IF dark.items[item].reuseID # ""
      THEN [dark EXCEPT !.queues[dark.items[item].reuseID] = Append(@, item)]
      ELSE dark) EXCEPT !.ret = TRUE]

\* queueItem after its call of willHideItem, which may have thrown.
queueItem_hidden(told, index, item) ==
    IF told.flow # "run" THEN told
    ELSE queueItem_pooled([setVisibleItem(told, index, undefined)
                               EXCEPT !.items[item].opacity = 0], item)

queueItem_keepsBinding_hidden(told, index, item) ==
    IF told.flow # "run" THEN told
    ELSE queueItem_pooled([told EXCEPT !.items[item].opacity = 0], item)

\* Mutant: the retired record keeps its binding in the visible map.
queueItem_keepsBinding(s, index, plan) ==
    IF getVisibleItem(s, index) = undefined
    THEN [s EXCEPT !.ret = FALSE]
    ELSE queueItem_keepsBinding_hidden(
             willHideItem(Emit(s, "queueItem", index, getVisibleItem(s, index)),
                          getVisibleItem(s, index), plan),
             index, getVisibleItem(s, index))

queueItem(s, index, plan) ==
    IF getVisibleItem(s, index) = undefined
    THEN [s EXCEPT !.ret = FALSE]
    ELSE queueItem_hidden(
             willHideItem(Emit(s, "queueItem", index, getVisibleItem(s, index)),
                          getVisibleItem(s, index), plan),
             index, getVisibleItem(s, index))

clearQueue(s) == [s EXCEPT !.queues = [k \in ReuseIDs |-> <<>>]]

\* The props.shouldRenderItem callbacks the model draws from.
propsShouldRenderItem(name, item, previous) ==
    CASE name = "always" -> TRUE
      [] name = "never" -> FALSE
      [] OTHER -> item.contentLayout # previous.contentLayout

\* dequeueItem after shouldRenderItem({ item, previous }) returned `should`:
\* renderNonce.setValue(new Date().valueOf()) when it is true.
dequeueItem_rendered(done, item, previous, should) ==
    [done EXCEPT !.items[item].renderNonce = IF should THEN done.now ELSE @,
                 !.renders = Append(@, [item |-> item, previous |-> previous,
                                        returned |-> should]),
                 !.ret = item]

\* dequeueItem after updateItem, which may have thrown: it asks
\* shouldRenderItem and returns the record.
dequeueItem_updated(done, item, previous) ==
    IF done.flow # "run" THEN done
    ELSE dequeueItem_rendered(done, item, previous,
                              propsShouldRenderItem(done.props.shouldRenderItem,
                                                    done.items[item], previous))

\* dequeueItem after _dequeueItem, which returned popped.ret.
dequeueItem_popped(popped, index, plan) ==
    IF popped.ret = undefined THEN popped
    ELSE dequeueItem_updated(
             updateItem(Emit(popped, "dequeueItem", index, popped.ret),
                        popped.ret, index, FALSE, plan),
             popped.ret,
             [index |-> popped.items[popped.ret].index,
              contentLayout |-> popped.items[popped.ret].contentLayout])

dequeueItem(s, index, plan) ==
    dequeueItem_popped(_dequeueItem(s, getReuseID(s, index)), index, plan)

\* Mutant: an addition that cannot be satisfied is skipped and the loop goes on.
updateOne_skipsUnsatisfied_added(d, op, opts, plan) ==
    IF d.flow # "run" \/ d.ret # undefined THEN d
    ELSE IF opts.create
         THEN createItem(d, op.add, plan)
         ELSE d

updateOne_skipsUnsatisfied(s, op, opts, plan) ==
    IF opts.queue /\ op.remove # undefined
    THEN queueItem(s, op.remove, plan)
    ELSE IF op.add # undefined
         THEN updateOne_skipsUnsatisfied_added(
                  IF opts.dequeue
                  THEN dequeueItem(s, op.add, plan)
                  ELSE [s EXCEPT !.ret = undefined],
                  op, opts, plan)
         ELSE s

\* An addition of the loop after its attempt to dequeue, whose result is d.ret.
updateOne_added(d, op, opts, plan) ==
    IF d.flow # "run" \/ d.ret # undefined THEN d
    ELSE IF opts.create
         THEN createItem(d, op.add, plan)
         ELSE [setNeedsRender(cancelUpdate(d)) EXCEPT !.flow = "return"]

\* One yielded operation of the loop of updateItems.
updateOne(s, op, opts, plan) ==
    IF opts.queue /\ op.remove # undefined
    THEN queueItem(s, op.remove, plan)
    ELSE IF op.add # undefined
         THEN updateOne_added(
                  IF opts.dequeue
                  THEN dequeueItem(s, op.add, plan)
                  ELSE [s EXCEPT !.ret = undefined],
                  op, opts, plan)
         ELSE s

\* Mutant: the loop takes the operations from the last one yielded to the first.
RECURSIVE updateLoop_backwards(_, _, _, _, _)
updateLoop_backwards(s, ops, k, opts, plan) ==
    IF k > Len(ops) \/ s.flow # "run" THEN s
    ELSE updateLoop_backwards(updateOne(Emit(s, "yield", Len(ops) + 1 - k, undefined),
                                        ops[Len(ops) + 1 - k], opts,
                                        IF plan.at = k THEN plan ELSE NoPlan),
                              ops, k + 1, opts, plan)

RECURSIVE updateLoop(_, _, _, _, _)
updateLoop(s, ops, k, opts, plan) ==
    IF k > Len(ops) \/ s.flow # "run" THEN s
    ELSE updateLoop(updateOne(Emit(s, "yield", k, undefined), ops[k], opts,
                              IF plan.at = k THEN plan ELSE NoPlan),
                    ops, k + 1, opts, plan)

\* The "update" pass of updateItems over visibleIndexes().
RECURSIVE updateVisible(_, _)
updateVisible(s, todo) ==
    IF todo = <<>> \/ s.flow # "run" THEN s
    ELSE LET index == Head(todo)
             item == getVisibleItem(s, index)
         IN updateVisible(IF item # undefined
                          THEN updateItem(Emit(s, "updateItem", index, item), item, index, FALSE, NoPlan)
                          ELSE s,
                          Tail(todo))

\* Mutant: the early return cancels a second time.
updateItems_ended_cancelsAgain(passed) ==
    [(CASE passed.flow = "run" -> commitUpdate(passed)
        [] passed.flow = "return" -> cancelUpdate(passed)
        [] OTHER -> cancelUpdate(Emit(passed, "catch", undefined, undefined)))
     EXCEPT !.depth = @ - 1, !.flow = "run"]

\* The end of the try block of updateItems: commit, early return (which has
\* cancelled already), or catch.
updateItems_ended(passed) ==
    [(CASE passed.flow = "run" -> commitUpdate(passed)
        [] passed.flow = "return" -> passed
        [] OTHER -> cancelUpdate(Emit(passed, "catch", undefined, undefined)))
     EXCEPT !.depth = @ - 1, !.flow = "run"]

\* updateItems after its loop over itemUpdates().
updateItems_looped(looped, opts) ==
    updateItems_ended(IF looped.flow = "run" /\ opts.update
                      THEN updateVisible(looped, SetToSeq(VisibleKeys(looped.visible)))
                      ELSE looped)

\* updateItems after beginUpdate(), which is outside the try block.
updateItems_begun(begun, ops, opts, plan) ==
    IF begun.flow = "throw"
    THEN [begun EXCEPT !.depth = @ - 1]
    ELSE updateItems_looped(updateLoop(begun, ops, 1, opts, plan), opts)

updateItems(s, ops, opts, plan) ==
    updateItems_begun(beginUpdate([s EXCEPT !.depth = @ + 1]), ops, opts, plan)

reset(s) ==
    LET cleared == clearQueue(s)
        hidden == { cleared.visible[i] : i \in VisibleKeys(cleared.visible) }
    IN [cleared EXCEPT !.visible = [i \in Indexes |-> undefined],
                       !.trace = @ \o [k \in 1..Cardinality(hidden) |->
                                         Event("willHideItem", undefined, SetToSeq(hidden)[k], s.depth)]]

(***************************************************************************)
(* Layout source: the listeners on its animated values.  A listener is the *)
(* pair of the id addListener gave out and the value listened to.          *)
(***************************************************************************)
\* ./const's kInsetKeys, as the constructor lays insets$ out.
kInsetKeys == <<"top", "right", "bottom", "left">>

\* The values configure() listens to, in its order.
AnimatedValues == <<"itemSize", "origin", "scale">> \o kInsetKeys

\* value.addListener(callback): the value holds the callback under an id that
\* no listener had before, and returns the id.
addListener(s, value) ==
    [s EXCEPT !.uniqueId = @ + 1,
              !.listeners = @ \cup {[sub |-> s.uniqueId + 1, value |-> value]},
              !.ret = s.uniqueId + 1]

\* this._animatedSubscriptions[sub] = value, sub being the id just returned.
configure_subscribed(added, value) ==
    [added EXCEPT !.subs = { x \in @ : x.sub # added.ret }
                             \cup {[sub |-> added.ret, value |-> value]},
                  !.ret = undefined]

\* Mutant: unconfigure() that forgets its subscriptions without removing the
\* listeners.
unconfigure_forgets(s) == reset([s EXCEPT !.subs = {}])

unconfigure(s) == reset([s EXCEPT !.listeners = @ \ s.subs, !.subs = {}])

RECURSIVE configure_values(_, _)
configure_values(s, k) ==
    IF k > Len(AnimatedValues) THEN s
    ELSE configure_values(
            configure_subscribed(addListener(s, AnimatedValues[k]), AnimatedValues[k]),
            k + 1)

\* The end of configure(): setNeedsUpdate(view, { force: true }) when an inset
\* value was replaced, which is updateItems(view).
configure_forced(listened, needsForcedUpdate, ops) ==
    IF needsForcedUpdate
    THEN updateItems(listened, ops, DefaultOptions, NoPlan)
    ELSE listened

\* normalizeAnimatedValueXY and normalizeAnimatedValue give the value the prop
\* resolves to; the copies are read from the values.
configure_placed(s) ==
    [s EXCEPT !.values = [itemSize |-> s.props.itemSize, origin |-> s.props.origin,
                          scale |-> s.props.scale, insets |-> s.props.insets],
              !.copies = [itemSize |-> s.props.itemSize, origin |-> s.props.origin,
                          scale |-> s.props.scale, insets |-> s.props.insets]]

\* Mutant: the update runs whether or not the view will render anyway.
sourceSetNeedsUpdate_whileRendering(s, force, ops) ==
    updateItems(s, ops, DefaultOptions, NoPlan)

\* setNeedsUpdate(view, { force }): nothing when the view will render anyway;
\* shouldUpdate(view) is true.
sourceSetNeedsUpdate(s, force, ops) ==
    IF ~force /\ s.needsRender THEN s
    ELSE updateItems(s, ops, DefaultOptions, NoPlan)

sourceScaleListener_takesZero(s, p, ops) ==
    IF p.x = s.copies.scale.x /\ p.y = s.copies.scale.y THEN [s EXCEPT !.values.scale = p]
    ELSE sourceSetNeedsUpdate([s EXCEPT !.values.scale = p, !.copies.scale = p], FALSE, ops)

\* scale$ is set to p and the listener configure() added to it runs.
sourceScaleListener(s, p, ops) ==
    IF p.x = 0 \/ p.y = 0 THEN [s EXCEPT !.values.scale = p]
    ELSE IF p.x = s.copies.scale.x /\ p.y = s.copies.scale.y
         THEN [s EXCEPT !.values.scale = p]
         ELSE sourceSetNeedsUpdate([s EXCEPT !.values.scale = p, !.copies.scale = p],
                                   FALSE, ops)

configure(s, needsForcedUpdate, ops) ==
    configure_forced(configure_values(configure_placed(unconfigure(s)), 1),
                     needsForcedUpdate, ops)

(***************************************************************************)
(* Layout source: the operations as actions.                               *)
(***************************************************************************)
\* The source's state as the record the methods work on, before an operation.
\* The latest time a render nonce was set to.
LatestNonce ==
    CHOOSE n \in { items[id].renderNonce : id \in ItemIds } :
       \A id \in ItemIds : items[id].renderNonce <= n

\* `now` is what new Date().valueOf() gives during the operation: a time after
\* every render nonce set so far, unless the operation draws another.
Source ==
    [props |-> props, visible |-> visible, items |-> items, queues |-> _itemQueues,
     updating |-> _updating, needsRender |-> needsRender, trace |-> <<>>,
     flow |-> "run", ret |-> undefined, depth |-> 0, overflow |-> FALSE,
     subs |-> _animatedSubscriptions, listeners |-> animatedListeners,
     uniqueId |-> uniqueId, copies |-> sourceCopies, values |-> sourceValues,
     renders |-> <<>>, now |-> LatestNonce + 1]

\* Records that are neither visible nor pooled are garbage: their slots are freed.
Collect(s) ==
    [id \in ItemIds |-> IF id \in FreeIds(s) THEN FreeItem ELSE s.items[id]]

\* No item layout has been asked.
NoLayout ==
    [done |-> FALSE, grid |-> FALSE, index |-> zeroPoint, copies |-> NewCopies,
     content |-> [offset |-> zeroPoint, size |-> zeroPoint],
     container |-> zeroPoint, containerValue |-> zeroPoint,
     view |-> [offset |-> zeroPoint, size |-> zeroPoint],
     viewValue |-> [offset |-> zeroPoint, size |-> zeroPoint]]

\* No operation is running and the history of the last one has been dropped.
NoCall ==
    [op |-> "none", index |-> undefined, target |-> {}, ops |-> <<>>,
     opts |-> DefaultOptions, plan |-> NoPlan, ret |-> undefined, threw |-> FALSE,
     pooled |-> 0]

Idle == call = NoCall

Becomes(s, c) ==
    /\ Idle
    /\ ~s.overflow
    /\ \A k \in ReuseIDs : Len(s.queues[k]) <= MaxQueue
    /\ visible' = s.visible
    /\ items' = Collect(s)
    /\ _itemQueues' = s.queues
    /\ _updating' = s.updating
    /\ needsRender' = s.needsRender
    /\ trace' = s.trace
    /\ call' = [c EXCEPT !.ret = IF c.op \in {"dequeueItem", "createItem"}
                                  THEN s.ret ELSE undefined,
                          !.threw = (s.flow = "throw")]
    /\ _animatedSubscriptions' = s.subs
    /\ animatedListeners' = s.listeners
    /\ uniqueId' = s.uniqueId
    /\ sourceCopies' = s.copies
    /\ sourceValues' = s.values
    /\ \A id \in ItemIds : s.items[id].renderNonce <= MaxClock
    /\ renders' = s.renders
    /\ UNCHANGED <<props, placed, layoutVars>>

Options == [queue : BOOLEAN, dequeue : BOOLEAN, create : BOOLEAN, update : BOOLEAN]

\* What itemUpdates() may yield for a target visible set: one remove per index
\* leaving, one add per index entering, in any order.
itemUpdates(vis, target) ==
    Perms({ [remove |-> i, add |-> undefined] : i \in VisibleKeys(vis) \ target }
          \cup { [remove |-> undefined, add |-> i] : i \in target \ VisibleKeys(vis) })

\* The history of an operation; pooled is the size, before it, of the pool of
\* the reuse ID of its index.
Call(op, index, target, ops, opts, plan) ==
    [op |-> op, index |-> index, target |-> target, ops |-> ops, opts |-> opts,
     plan |-> plan, ret |-> undefined, threw |-> FALSE,
     pooled |-> IF index = undefined THEN 0
                ELSE Len(_itemQueues[getReuseID(Source, index)])]

UpdateItems ==
    \E target \in SUBSET Indexes, opts \in Options :
      \E ops \in itemUpdates(visible, target) :
        Becomes(updateItems(Source, ops, opts, NoPlan),
                Call("updateItems", undefined, target, ops, opts, NoPlan))

\* What itemUpdates() may yield when the subclass also pairs a removal with
\* an addition in one operation ({ add, remove }).
pairedUpdates(vis, target) ==
    itemUpdates(vis, target)
        \cup { <<[remove |-> i, add |-> j]>> :
                 i \in VisibleKeys(vis) \ target, j \in target \ VisibleKeys(vis) }

\* The times new Date().valueOf() may give: the time of the latest render
\* nonce (the same millisecond) or a later one.
Times == { n \in {LatestNonce, LatestNonce + 1} : n >= 1 }

\* updateItems(view, options) at a time of the clock, with any options and a
\* subclass that may pair a removal with an addition.
UpdateItemsAt ==
    \E target \in SUBSET Indexes, opts \in Options, now \in Times :
      \E ops \in pairedUpdates(visible, target) :
        Becomes(updateItems([Source EXCEPT !.now = now], ops, opts, NoPlan),
                Call("updateItems", undefined, target, ops, opts, NoPlan))

\* setNeedsUpdate(view, { force }) called on the source, at a time of the clock.
SourceSetNeedsUpdate ==
    \E target \in SUBSET Indexes, force \in BOOLEAN, now \in Times :
      \E ops \in itemUpdates(visible, target) :
        Becomes(sourceSetNeedsUpdate([Source EXCEPT !.now = now], force, ops),
                Call(IF force THEN "setNeedsUpdate force" ELSE "setNeedsUpdate",
                     undefined, target, ops, DefaultOptions, NoPlan))

QueueItem ==
    \E index \in Indexes :
        Becomes(queueItem(Source, index, NoPlan),
                Call("queueItem", index, {}, <<>>, DefaultOptions, NoPlan))

DequeueItem ==
    \E index \in Indexes :
        Becomes(dequeueItem(Source, index, NoPlan),
                Call("dequeueItem", index, {}, <<>>, DefaultOptions, NoPlan))

CreateItem ==
    \E index \in Indexes :
        Becomes(createItem(Source, index, NoPlan),
                Call("createItem", index, {}, <<>>, DefaultOptions, NoPlan))

ClearQueue ==
    Becomes(clearQueue(Source),
            Call("clearQueue", undefined, {}, <<>>, DefaultOptions, NoPlan))

Reset ==
    Becomes(reset(Source),
            Call("reset", undefined, {}, <<>>, DefaultOptions, NoPlan))

\* Largest number of listener ids explored.
MaxSubscriptions == 14

\* needsForcedUpdate: normalizeAnimatedValue returned another value than the
\* inset held.
Configure ==
    /\ uniqueId + Len(AnimatedValues) <= MaxSubscriptions
    /\ \E needsForcedUpdate \in BOOLEAN, target \in SUBSET Indexes :
         \E ops \in itemUpdates([i \in Indexes |-> undefined], target) :
            /\ (~needsForcedUpdate => target = {})
            /\ Becomes(configure(Source, needsForcedUpdate, ops),
                       Call("configure", undefined, target, ops, DefaultOptions, NoPlan))

Unconfigure ==
    Becomes(unconfigure(Source),
            Call("unconfigure", undefined, {}, <<>>, DefaultOptions, NoPlan))

InitSource ==
    /\ props \in PropsSet
    /\ visible = [i \in Indexes |-> undefined]
    /\ items = [id \in ItemIds |-> FreeItem]
    /\ _itemQueues = [k \in ReuseIDs |-> <<>>]
    /\ _updating = FALSE
    /\ needsRender = FALSE
    /\ trace = <<>>
    /\ call = NoCall
    /\ _animatedSubscriptions = {}
    /\ animatedListeners = {}
    /\ uniqueId = 0
    /\ sourceCopies = NewCopies
    /\ sourceValues = NewValues
    /\ placed = NoLayout
    /\ renders = <<>>

\* Control is back in the event loop: the history of the operation is dropped.
Return ==
    /\ ~Idle
    /\ trace' = <<>>
    /\ renders' = <<>>
    /\ call' = NoCall
    /\ UNCHANGED <<props, visible, items, _itemQueues, _updating, needsRender,
                   _animatedSubscriptions, animatedListeners, uniqueId, sourceCopies,
                   sourceValues, placed, layoutVars>>

\* updateItems with a willShowItem/willHideItem callback that, while operation
\* plan.at is processed, calls updateItems(view) again.
\* The nested call's itemUpdates() works towards the same target: the view has
\* not changed since the outer call.
Plans(ops, target) ==
    [at : 1..Len(ops), attempts : 0..MaxReentry, catches : BOOLEAN, target : {target}]

UpdateItemsReentrant ==
    \E target \in SUBSET Indexes, create \in BOOLEAN :
      \E ops \in itemUpdates(visible, target) :
        \E plan \in Plans(ops, target) :
          LET opts == [DefaultOptions EXCEPT !.create = create]
          IN Becomes(updateItems(Source, ops, opts, plan),
                     Call("updateItems", undefined, target, ops, opts, plan))

(***************************************************************************)
(* Coordinator: values.  Lengths are in pixels and content units, pan      *)
(* velocities in units of 0.00025 pixel per millisecond; the inputs drawn  *)
(* keep every division exact.                                              *)
(***************************************************************************)
Abs(n) == IF n < 0 THEN -n ELSE n

\* JavaScript's a / b for b # 0, on operands that divide exactly.
Quotient(a, b) == IF b > 0 THEN a \div b ELSE -(a \div (-b))

\* kPanSpeedMin = 0.001, in units of 0.00025.
kPanSpeedMin == 4

\* The ids of the layout sources an application registers.
SourceIds == {1, 2}

\* _descelerationAnimation when undefined.  running: start() was called and the
\* animation has not ended; manual: made with manualStart, the caller starts it.
NoAnimation ==
    [kind |-> "none", toValue |-> zeroPoint, velocity |-> zeroPoint,
     running |-> FALSE, manual |-> FALSE, onEnd |-> FALSE]

Note(c, e, arg) == [c EXCEPT !.journal = Append(@, [e |-> e, arg |-> arg])]

\* An optional callback: it is called when the application gave it.
NoteIf(given, c, e, arg) == IF given THEN Note(c, e, arg) ELSE c

\* this.callbacks[key]: of the callbacks the options give, the constructor
\* copies snapToLocation, onViewportSizeChanged and onScaleChanged.
callbacks(c, key) ==
    /\ key \in {"snapToLocation", "onViewportSizeChanged", "onScaleChanged"}
    /\ c.options[key]

(***************************************************************************)
(* Coordinator: update batching.                                           *)
(***************************************************************************)
layoutBeginUpdate(c) == [c EXCEPT !.updateDepth = @ + 1]

\* update() with the scale latch left out.
update_ignoresScale(c) ==
    LET noted == Note(c, "update", c.updateDepth)
        sized == IF ~noted.hasContainerSize /\ noted.containerSize.x >= 1 /\ noted.containerSize.y >= 1
                 THEN [noted EXCEPT !.hasContainerSize = TRUE]
                 ELSE noted
    IN IF ~sized.hasContainerSize THEN sized
       ELSE [sized EXCEPT !.journal = @ \o
                [k \in 1..Len(sized.layoutSources) |->
                    [e |-> "setNeedsUpdate", arg |-> sized.layoutSources[k]]]]

\* cancelScheduledUpdate() does nothing: _updateTimer is never set.
update(c) ==
    LET noted == Note(c, "update", c.updateDepth)
        sized == IF ~noted.hasContainerSize /\ noted.containerSize.x >= 1 /\ noted.containerSize.y >= 1
                 THEN [noted EXCEPT !.hasContainerSize = TRUE]
                 ELSE noted
        scaled == IF ~sized.hasScale /\ sized.scale.x # 0 /\ sized.scale.y # 0
                  THEN [sized EXCEPT !.hasScale = TRUE]
                  ELSE sized
    IN IF ~sized.hasContainerSize THEN sized
       ELSE IF ~scaled.hasScale THEN scaled
       ELSE [scaled EXCEPT !.journal = @ \o
                [k \in 1..Len(scaled.layoutSources) |->
                    [e |-> "setNeedsUpdate", arg |-> scaled.layoutSources[k]]]]

\* The timer of scheduleUpdate is commented out: it updates at once.
scheduleUpdate(c) == update(c)

\* endUpdate() without the test of the depth: it updates at every call.
layoutEndUpdate_always(c) ==
    LET d == c.updateDepth - 1
    IN IF d < 0
       THEN [c EXCEPT !.updateDepth = 0, !.flow = "throw"]
       ELSE scheduleUpdate([c EXCEPT !.updateDepth = d])

\* endUpdate() that throws on a mismatch without putting the depth back to 0.
layoutEndUpdate_negative(c) ==
    LET d == c.updateDepth - 1
    IN IF d < 0
       THEN [c EXCEPT !.updateDepth = d, !.flow = "throw"]
       ELSE IF d > 0
       THEN [c EXCEPT !.updateDepth = d]
       ELSE scheduleUpdate([c EXCEPT !.updateDepth = d])

layoutEndUpdate(c) ==
    LET d == c.updateDepth - 1
    IN IF d < 0
       THEN [c EXCEPT !.updateDepth = 0, !.flow = "throw"]
       ELSE IF d > 0
       THEN [c EXCEPT !.updateDepth = d]
       ELSE scheduleUpdate([c EXCEPT !.updateDepth = d])

layoutSetNeedsUpdate(c) == layoutEndUpdate(layoutBeginUpdate(c))

(***************************************************************************)
(* Coordinator: the listeners of the animated values.                      *)
(***************************************************************************)
didChangeViewportSize(c) ==
    NoteIf(c.options.onViewportSizeChanged, layoutSetNeedsUpdate(c),
           "onViewportSizeChanged", 0)

didChangeContainerSize(c) == didChangeViewportSize(c)

didChangeLocation(c) == layoutSetNeedsUpdate(c)

didChangeScale(c) ==
    layoutSetNeedsUpdate(NoteIf(c.options.onScaleChanged, c, "onScaleChanged", 0))

didChangeAnchor(c) == layoutSetNeedsUpdate(c)

containerSizeListener(c, p) ==
    IF p.x <= 0 \/ p.y <= 0 THEN c
    ELSE IF Abs(p.x - c.containerSize.x) < 1 /\ Abs(p.y - c.containerSize.y) < 1 THEN c
    ELSE didChangeContainerSize([c EXCEPT !.containerSize = p])

scaleListener(c, p) ==
    IF p.x = 0 \/ p.y = 0 THEN c
    ELSE IF p.x = c.scale.x /\ p.y = c.scale.y THEN c
    ELSE didChangeScale([c EXCEPT !.scale = p])

anchorListener(c, p) ==
    IF p.x = c.anchor.x /\ p.y = c.anchor.y THEN c
    ELSE didChangeAnchor([c EXCEPT !.anchor = p])

locationOffsetBaseListener(c, p) ==
    didChangeLocation([c EXCEPT !.locationOffsetBase = p])

_onViewOffsetChange(c, p) ==
    layoutSetNeedsUpdate([c EXCEPT !.viewOffset = p])

panVeloctyListener(c, p) == [c EXCEPT !.panVelocty = p]

\* _locationOffsetBase$.setValue(p): Animated.ValueXY sets x, then y, and its
\* listener hears each of the two.
setLocationOffsetBaseX(c, x) ==
    LET p == Point(x, c.locationOffsetBaseValue.y)
    IN locationOffsetBaseListener([c EXCEPT !.locationOffsetBaseValue = p], p)

setLocationOffsetBaseY(c, y) ==
    LET p == Point(c.locationOffsetBaseValue.x, y)
    IN locationOffsetBaseListener([c EXCEPT !.locationOffsetBaseValue = p], p)

setLocationOffsetBase(c, p) == setLocationOffsetBaseY(setLocationOffsetBaseX(c, p.x), p.y)

isDefaultPan(c) == c.options.panTarget = "viewOffset"

\* The pan target is viewOffset$ unless the options gave another value, which
\* has no listener of the coordinator. A component is set on its own by a
\* gesture move; _panTarget$.setValue(p) sets x, then y.
setPanTargetX(c, x) ==
    IF isDefaultPan(c)
    THEN LET p == Point(x, c.viewOffsetValue.y)
         IN _onViewOffsetChange([c EXCEPT !.viewOffsetValue = p], p)
    ELSE [c EXCEPT !.panTargetValue.x = x]

setPanTargetY(c, y) ==
    IF isDefaultPan(c)
    THEN LET p == Point(c.viewOffsetValue.x, y)
         IN _onViewOffsetChange([c EXCEPT !.viewOffsetValue = p], p)
    ELSE [c EXCEPT !.panTargetValue.y = y]

setPanTarget(c, p) == setPanTargetY(setPanTargetX(c, p.x), p.y)

(***************************************************************************)
(* Coordinator: geometry.                                                  *)
(***************************************************************************)
\* The anchor is kept in halves, so width * anchor is (width * halves) / 2.
containerOriginOffset(c) ==
    Point(-Quotient(c.containerSize.x * c.anchor.x, 2),
          -Quotient(c.containerSize.y * c.anchor.y, 2))

locationOffset(c) ==
    Point(c.locationOffsetBase.x + Quotient(c.viewOffset.x, c.scale.x),
          c.locationOffsetBase.y + Quotient(c.viewOffset.y, c.scale.y))

unscaleVector(c, point) ==
    IF c.scale.x = 0 \/ c.scale.y = 0 THEN zeroPoint
    ELSE Point(Quotient(point.x, c.scale.x), Quotient(point.y, c.scale.y))

contentVelocity(c) == unscaleVector(c, c.panVelocty)

layoutGetContainerLocation_originAdded(c, point, factor) ==
    LET origin == containerOriginOffset(c)
        sx == IF factor.x # 0 THEN c.scale.x * factor.x ELSE c.scale.x
        sy == IF factor.y # 0 THEN c.scale.y * factor.y ELSE c.scale.y
    IN Point(c.viewOffset.x + origin.x + (point.x + c.locationOffsetBase.x) * sx,
             c.viewOffset.y + origin.y + (point.y + c.locationOffsetBase.y) * sy)

\* options.scale is absent here; a factor 0 is skipped like an absent one.
layoutGetContainerLocation(c, point, factor) ==
    LET origin == containerOriginOffset(c)
        sx == IF factor.x # 0 THEN c.scale.x * factor.x ELSE c.scale.x
        sy == IF factor.y # 0 THEN c.scale.y * factor.y ELSE c.scale.y
    IN Point(c.viewOffset.x - origin.x + (point.x + c.locationOffsetBase.x) * sx,
             c.viewOffset.y - origin.y + (point.y + c.locationOffsetBase.y) * sy)

\* The current value of getContainerLocation$: an options.scale component is
\* an animated node, so it always multiplies.
layoutGetContainerLocation_value(c, point, factor) ==
    LET origin == containerOriginOffset(c)
    IN Point(c.viewOffsetValue.x - origin.x
                + (point.x + c.locationOffsetBaseValue.x) * (c.scale.x * factor.x),
             c.viewOffsetValue.y - origin.y
                + (point.y + c.locationOffsetBaseValue.y) * (c.scale.y * factor.y))

(***************************************************************************)
(* Layout source: where its items are placed in the container.  s is the   *)
(* source, c the coordinator that is its view.                             *)
(***************************************************************************)

\* A coordinate the source leaves undefined.
NotPinned == [hasX |-> FALSE, x |-> 0, hasY |-> FALSE, y |-> 0]

getStickyContainerLocation_unpinned(s, c) == NotPinned

getStickyContainerLocation(s, c) ==
    CASE s.props.stickyEdge = "top" ->
            [NotPinned EXCEPT !.hasY = TRUE, !.y = s.copies.insets.top]
      [] s.props.stickyEdge = "left" ->
            [NotPinned EXCEPT !.hasX = TRUE, !.x = s.copies.insets.left]
      [] s.props.stickyEdge = "bottom" ->
            [NotPinned EXCEPT !.hasY = TRUE, !.y = c.containerSize.y - s.copies.insets.bottom]
      [] s.props.stickyEdge = "right" ->
            [NotPinned EXCEPT !.hasX = TRUE, !.x = c.containerSize.x - s.copies.insets.right]
      [] OTHER -> NotPinned

getStickyContainerLocation_value(s, c) ==
    CASE s.props.stickyEdge = "top" ->
            [NotPinned EXCEPT !.hasY = TRUE, !.y = s.values.insets.top]
      [] s.props.stickyEdge = "left" ->
            [NotPinned EXCEPT !.hasX = TRUE, !.x = s.values.insets.left]
      [] s.props.stickyEdge = "bottom" ->
            [NotPinned EXCEPT !.hasY = TRUE, !.y = c.containerSize.y - s.values.insets.bottom]
      [] s.props.stickyEdge = "right" ->
            [NotPinned EXCEPT !.hasX = TRUE, !.x = c.containerSize.x - s.values.insets.right]
      [] OTHER -> NotPinned

getScale(s, c) == Point(s.copies.scale.x * c.scale.x, s.copies.scale.y * c.scale.y)

getScale_value(s, c) == Point(s.values.scale.x * c.scale.x, s.values.scale.y * c.scale.y)

\* a || b on numbers.
OrElse(a, b) == IF a # 0 THEN a ELSE b

\* The coordinate before the origin is applied: the pinned one, or the
\* view's moved in by the inset of the side the scale starts from.
getContainerLocation_inset(pinned, coordinate, at, scale, low, high) ==
    IF pinned THEN coordinate
    ELSE IF scale > 0 THEN at + low ELSE at - high

\* `p.x || 0 + origin.x * scale.x` adds the origin with the precedence of an
\* alternative: the sum is the right operand of ||.
getContainerLocation_sums(s, c, point) ==
    LET at == layoutGetContainerLocation(c, point, s.copies.scale)
        p == getStickyContainerLocation(s, c)
        scale == getScale(s, c)
    IN Point(getContainerLocation_inset(p.hasX, p.x, at.x, scale.x, s.copies.insets.left,
                                        s.copies.insets.right)
                + s.copies.origin.x * scale.x,
             getContainerLocation_inset(p.hasY, p.y, at.y, scale.y, s.copies.insets.top,
                                        s.copies.insets.bottom)
                + s.copies.origin.y * scale.y)

getContainerLocation(s, c, point) ==
    LET at == layoutGetContainerLocation(c, point, s.copies.scale)
        p == getStickyContainerLocation(s, c)
        scale == getScale(s, c)
    IN Point(OrElse(getContainerLocation_inset(p.hasX, p.x, at.x, scale.x,
                                               s.copies.insets.left, s.copies.insets.right),
                    0 + s.copies.origin.x * scale.x),
             OrElse(getContainerLocation_inset(p.hasY, p.y, at.y, scale.y,
                                               s.copies.insets.top, s.copies.insets.bottom),
                    0 + s.copies.origin.y * scale.y))

\* The current value of getContainerLocation$: the side is chosen by the
\* plain scale, the sums are animated nodes.
getContainerLocation_value(s, c, point) ==
    LET at == layoutGetContainerLocation_value(c, point, s.values.scale)
        p == getStickyContainerLocation_value(s, c)
        scale == getScale(s, c)
        scaleValue == getScale_value(s, c)
    IN Point(getContainerLocation_inset(p.hasX, p.x, at.x, scale.x, s.values.insets.left,
                                        s.values.insets.right)
                + s.values.origin.x * scaleValue.x,
             getContainerLocation_inset(p.hasY, p.y, at.y, scale.y, s.values.insets.top,
                                        s.values.insets.bottom)
                + s.values.origin.y * scaleValue.y)

\* The grid subclass's getItemContentLayout: the cell of the index in a grid
\* of cells of itemSize.
gridItemContentLayout(s, index) ==
    [offset |-> Point(index.x * s.copies.itemSize.x, index.y * s.copies.itemSize.y),
     size |-> s.copies.itemSize]

\* One axis of getItemViewLayout: a negative scale moves the offset by the
\* (negative) size and negates the size.
getItemViewLayout_axis_unmoved(offset, size, scale) ==
    IF scale < 0 THEN [offset |-> offset, size |-> -size]
    ELSE [offset |-> offset, size |-> size]

getItemViewLayout_axis(offset, size, scale) ==
    IF scale < 0 THEN [offset |-> offset + size, size |-> -size]
    ELSE [offset |-> offset, size |-> size]

getItemViewLayout_flipped(located, contentLayout, scale) ==
    LET x == getItemViewLayout_axis(located.x, contentLayout.size.x * scale.x, scale.x)
        y == getItemViewLayout_axis(located.y, contentLayout.size.y * scale.y, scale.y)
    IN [offset |-> Point(x.offset, y.offset), size |-> Point(x.size, y.size)]

getItemViewLayout(s, c, contentLayout) ==
    getItemViewLayout_flipped(getContainerLocation(s, c, contentLayout.offset),
                              contentLayout, getScale(s, c))

\* The current value of createItemViewLayout$ for a content layout holding
\* contentLayout: the sizes are multiplied by scale$, the flip is chosen by
\* the plain scale.
createItemViewLayout_value(s, c, contentLayout) ==
    LET scale == getScale(s, c)
        scaleValue == getScale_value(s, c)
        located == getContainerLocation_value(s, c, contentLayout.offset)
        x == getItemViewLayout_axis(located.x, contentLayout.size.x * scaleValue.x, scale.x)
        y == getItemViewLayout_axis(located.y, contentLayout.size.y * scaleValue.y, scale.y)
    IN [offset |-> Point(x.offset, y.offset), size |-> Point(x.size, y.size)]

\* getLocation without the container's origin offset.
layoutGetLocation_noOrigin(c, point) ==
    IF c.scale.x = 0 \/ c.scale.y = 0 THEN zeroPoint
    ELSE Point(-c.locationOffsetBase.x - Quotient(point.x, c.scale.x),
               -c.locationOffsetBase.y - Quotient(point.y, c.scale.y))

layoutGetLocation(c, point) ==
    IF c.scale.x = 0 \/ c.scale.y = 0 THEN zeroPoint
    ELSE LET origin == containerOriginOffset(c)
         IN Point(-c.locationOffsetBase.x - Quotient(point.x - origin.x, c.scale.x),
                  -c.locationOffsetBase.y - Quotient(point.y - origin.y, c.scale.y))

(***************************************************************************)
(* Coordinator: interaction handle, deceleration.                          *)
(***************************************************************************)
_startInteraction(c) ==
    IF c.interactionHandle = 0
    THEN Note([c EXCEPT !.interactionHandle = 1], "createInteractionHandle", 0)
    ELSE c

_endInteration(c) ==
    IF c.interactionHandle # 0
    THEN Note([c EXCEPT !.interactionHandle = 0], "clearInteractionHandle", 0)
    ELSE c

_onStartDeceleration(c) == _startInteraction(c)

_transferViewOffsetToLocation(c) ==
    LET begun == layoutBeginUpdate(c)
        location == locationOffset(begun)
        moved == [begun EXCEPT !.viewOffset = zeroPoint, !.locationOffsetBase = location]
    IN layoutEndUpdate(setLocationOffsetBase(moved, location))

\* _onEndDeceleration that zeroes the pan target without the transfer.
_onEndDeceleration_noTransfer(c) ==
    _endInteration([setPanTarget(c, zeroPoint) EXCEPT !.animation = NoAnimation])

_onEndDeceleration(c) ==
    LET merged == _transferViewOffsetToLocation(c)
        zeroed == setPanTarget(merged, zeroPoint)
    IN _endInteration([zeroed EXCEPT !.animation = NoAnimation])

\* Mutant: the animation held is dropped without being stopped.
stopAnimation_forgets(c) == c

\* _descelerationAnimation?.stop(): a running animation ends unfinished and its
\* end callback runs; one that was never started, or has ended, has none to run.
stopAnimation(c) ==
    IF c.animation.kind = "none" \/ ~c.animation.running THEN c
    ELSE IF c.animation.manual
    THEN Note([c EXCEPT !.animation.running = FALSE], "callerOnEnd", 0)
    ELSE NoteIf(c.animation.onEnd,
                _onEndDeceleration(Note([c EXCEPT !.animation.running = FALSE], "stop", 0)),
                "onEnd", 0)

(***************************************************************************)
(* Coordinator: programmatic scroll.  A Partial<IPoint> carries hasX and   *)
(* hasY for the components that are defined.                               *)
(***************************************************************************)
Partial(hasX, x, hasY, y) == [hasX |-> hasX, x |-> x, hasY |-> hasY, y |-> y]

Whole(p) == Partial(TRUE, p.x, TRUE, p.y)

\* Mutant: an axis the partial point omits is taken as 0.
Spread_fromZero(base, partial) == Point(partial.x, partial.y)

\* { ...base, ...partial }
Spread(base, partial) ==
    Point(IF partial.hasX THEN partial.x ELSE base.x,
          IF partial.hasY THEN partial.y ELSE base.y)

\* scrollToOffset once the view offset is transferred: it jumps to the offset,
\* or makes the animation that goes there.
scrollNow_merged(merged, o, offset) ==
    IF ~o.animated
    THEN [NoteIf(o.onEnd, _onEndDeceleration(setLocationOffsetBase(merged, offset)),
                 "onEnd", 1) EXCEPT !.ret = FALSE]
    ELSE LET anim == [kind |-> IF o.timing THEN "timing" ELSE "spring",
                      toValue |-> offset,
                      velocity |-> IF o.timing THEN zeroPoint
                                   ELSE IF o.hasVelocity THEN o.velocity
                                   ELSE contentVelocity(merged),
                      running |-> ~o.manualStart,
                      manual |-> o.manualStart,
                      onEnd |-> o.onEnd]
         IN [(IF ~o.manualStart
              THEN Note(_onStartDeceleration([merged EXCEPT !.animation = anim]), "start", 0)
              ELSE _endInteration([merged EXCEPT !.animation = anim])) EXCEPT !.ret = TRUE]

\* scrollToOffset past its test of _panStarted.
scrollNow(c, o) ==
    IF ~(o.offset.hasX \/ o.offset.hasY) THEN [c EXCEPT !.ret = FALSE]
    ELSE scrollNow_merged(
             _transferViewOffsetToLocation(
                 _startInteraction([stopAnimation(c) EXCEPT !.animation = NoAnimation])),
             o, Spread(c.locationOffsetBase, o.offset))

\* scrollToOffset that does not look at _panStarted.
scrollToOffset_duringPan(c, o) == scrollNow(c, o)

scrollToOffset(c, o) ==
    IF c.panStarted THEN [c EXCEPT !.ret = FALSE] ELSE scrollNow(c, o)

scrollBy(c, o) ==
    IF ~(o.offset.hasX \/ o.offset.hasY) THEN [c EXCEPT !.ret = FALSE]
    ELSE LET offset == Point(c.locationOffsetBase.x + (IF o.offset.hasX THEN o.offset.x ELSE 0),
                             c.locationOffsetBase.y + (IF o.offset.hasY THEN o.offset.y ELSE 0))
         IN scrollToOffset(c, [o EXCEPT !.offset = Whole(offset)])

(***************************************************************************)
(* Coordinator: the pan gesture.                                           *)
(***************************************************************************)
\* kDefaultProps.longPressMaxDistance
kLongPressMaxDistance == 3

\* isZeroVelocity that looks at the x axis only.
isZeroVelocity_xOnly(panVelocity) == Abs(panVelocity.x) < kPanSpeedMin

isZeroVelocity(panVelocity) ==
    Abs(panVelocity.x) < kPanSpeedMin /\ Abs(panVelocity.y) < kPanSpeedMin

\* What callbacks.snapToLocation returns: undefined, or a partial location.
NoSnap == [defined |-> FALSE, to |-> Partial(FALSE, 0, FALSE, 0)]

_onEndPan(c, snap) ==
    LET ended == [c EXCEPT !.panStarted = FALSE]
        prevented == c.panDefaultPrevented
        offset == locationOffset(c)
        panVelocity == c.panVelocty
        velocity == contentVelocity(c)
        asked == ~prevented /\ c.options.snapToLocation
        heard == NoteIf(asked, ended, "snapToLocation", 0)
        decay == [kind |-> "decay", toValue |-> zeroPoint, velocity |-> panVelocity,
                  running |-> TRUE, manual |-> FALSE, onEnd |-> FALSE]
        done ==
            IF ~isDefaultPan(c) THEN ended
            ELSE IF asked /\ snap.defined
            THEN scrollToOffset(heard,
                     [offset |-> Whole(Spread(offset, snap.to)), animated |-> TRUE,
                      timing |-> FALSE, hasVelocity |-> TRUE, velocity |-> velocity,
                      manualStart |-> FALSE, onEnd |-> FALSE])
            ELSE IF prevented THEN heard
            ELSE IF ~isZeroVelocity(panVelocity)
            THEN Note(_onStartDeceleration([heard EXCEPT !.animation = decay]), "start", 0)
            ELSE _onEndDeceleration(heard)
    IN [done EXCEPT !.panVelocty = zeroPoint, !.ret = FALSE]

preventDefaultPan(c) ==
    IF c.panDefaultPrevented THEN c
    ELSE LET prevented == [c EXCEPT !.panDefaultPrevented = TRUE]
         IN IF prevented.panStarted THEN _onEndPan(prevented, NoSnap) ELSE prevented

\* clearTimeout(this._longPressTimer): the host drops the timeout of that id
\* if it is still pending.
clearTimeout(c) ==
    IF c.longPressTimer = "pending" /\ c.timers > 0
    THEN [c EXCEPT !.timers = @ - 1]
    ELSE c

_resetLongPress(c) ==
    IF c.longPressTimer # "undefined"
    THEN [clearTimeout(c) EXCEPT !.isLongPress = FALSE, !.longPressTimer = "undefined"]
    ELSE [c EXCEPT !.isLongPress = FALSE]

\* Mutant: the timer is armed without the one before it being cleared.
_startLongPressTimer_keepsTimer(c) ==
    Note([c EXCEPT !.isLongPress = FALSE, !.longPressTimer = "pending",
                   !.timers = @ + 1], "setTimeout", 0)

\* The journal tells when the reset cleared a timeout that was pending.
_startLongPressTimer(c) ==
    Note([NoteIf(c.longPressTimer = "pending", _resetLongPress(c), "clearTimeout", 0)
             EXCEPT !.longPressTimer = "pending", !.timers = @ + 1],
         "setTimeout", 0)

\* The timer's callback; prevents tells whether onLongPress calls preventDefaultPan.
longPressTimerFired(c, prevents) ==
    LET fired == [c EXCEPT !.longPressTimer = "fired", !.timers = @ - 1]
        g == c.pressInGestureState
    IN IF Abs(g.x) > kLongPressMaxDistance \/ Abs(g.y) > kLongPressMaxDistance THEN fired
       ELSE IF callbacks(c, "onLongPress")
       THEN LET long == Note([fired EXCEPT !.isLongPress = TRUE], "onLongPress", 0)
            IN IF prevents THEN preventDefaultPan(long) ELSE long
       ELSE [fired EXCEPT !.isLongPress = TRUE]

_onBeginPan(c) ==
    LET locked == Note([c EXCEPT !.pressInGestureState = zeroPoint], "lockScroll", 0)
        started == [locked EXCEPT !.panStarted = TRUE, !.panDefaultPrevented = FALSE]
        stopped == [stopAnimation(started) EXCEPT !.animation = NoAnimation]
        zeroed == setPanTarget(stopped, zeroPoint)
    IN _startLongPressTimer(NoteIf(callbacks(c, "onPressIn"), _startInteraction(zeroed),
                                   "onPressIn", 0))

\* The mapping of Animated.event: dx and vx when horizontal pan is enabled,
\* dy and vy when vertical pan is enabled.
panMappingX(c, d, v) ==
    IF c.options.horizontalPanEnabled
    THEN [setPanTargetX(c, d.x) EXCEPT !.panVelocty.x = v.x]
    ELSE c

panMappingY(c, d, v) ==
    IF c.options.verticalPanEnabled
    THEN [setPanTargetY(c, d.y) EXCEPT !.panVelocty.y = v.y]
    ELSE c

\* Mutant: the move is mapped whether or not the default pan was prevented.
onPanResponderMove_unguarded(c, d, v) ==
    panMappingY(panMappingX([c EXCEPT !.pressInGestureState = d], d, v), d, v)

\* onPanResponderMove: Animated.event sets dx, vx, dy, vy on the mapped values.
onPanResponderMove(c, d, v) ==
    IF c.panDefaultPrevented THEN [c EXCEPT !.pressInGestureState = d]
    ELSE panMappingY(panMappingX([c EXCEPT !.pressInGestureState = d], d, v), d, v)

\* _onPressOut after the pan ended: onPressOut, then onPress unless the press was long.
_onPressOut_ended(ended) ==
    _resetLongPress(NoteIf(~ended.isLongPress /\ callbacks(ended, "onPress"),
                           NoteIf(callbacks(ended, "onPressOut"),
                                  [ended EXCEPT !.panDefaultPrevented = FALSE],
                                  "onPressOut", 0),
                           "onPress", 0))

_onPressOut(c, snap) ==
    LET unlocked == Note(c, "unlockScroll", 0)
    IN _onPressOut_ended(IF unlocked.panStarted
                         THEN _onEndPan(unlocked, snap)
                         ELSE _endInteration(unlocked))

(***************************************************************************)
(* Coordinator: the animation held, as the animation library drives it.    *)
(***************************************************************************)
Sign(n) == IF n > 0 THEN 1 ELSE IF n < 0 THEN -1 ELSE 0

\* One frame: a decay moves viewOffset$ along its velocity, a timing or a
\* spring moves _locationOffsetBase$ towards its toValue.
animationFrame(c) ==
    LET anim == c.animation
    IN IF anim.kind = "decay"
       THEN setPanTarget(c, Point(c.viewOffsetValue.x + 2 * Sign(anim.velocity.x),
                                  c.viewOffsetValue.y + 2 * Sign(anim.velocity.y)))
       ELSE setLocationOffsetBase(c,
                Point(c.locationOffsetBaseValue.x + Sign(anim.toValue.x - c.locationOffsetBaseValue.x),
                      c.locationOffsetBaseValue.y + Sign(anim.toValue.y - c.locationOffsetBaseValue.y)))

\* The animation finishes: a timing or a spring arrives, then the end callback.
\* The end callback of the animation, given whether it finished.
animationEnd_rested(rested, anim) ==
    IF anim.manual THEN Note(rested, "callerOnEnd", 1)
    ELSE NoteIf(anim.onEnd, _onEndDeceleration(rested), "onEnd", 1)

animationEnd(c) ==
    animationEnd_rested(
        [(IF c.animation.kind = "decay" THEN c
          ELSE setLocationOffsetBase(c, c.animation.toValue)) EXCEPT !.animation.running = FALSE],
        c.animation)

(***************************************************************************)
(* Coordinator: the layout sources.                                        *)
(***************************************************************************)
Among(q, x) == \E k \in DOMAIN q : q[k] = x

setLayoutSources(c, layoutSources) ==
    LET removed == SelectSeq(c.layoutSources, LAMBDA x : ~Among(layoutSources, x))
        added == SelectSeq(layoutSources, LAMBDA x : ~Among(c.layoutSources, x))
    IN [c EXCEPT !.layoutSources = layoutSources,
                 !.journal = @ \o [k \in 1..Len(removed) |-> [e |-> "unconfigure", arg |-> removed[k]]]
                               \o [k \in 1..Len(added) |-> [e |-> "configure", arg |-> added[k]]]]

(***************************************************************************)
(* Coordinator: the layout sources as objects, mount, unmount and the      *)
(* memory warning.                                                         *)
(***************************************************************************)
\* Largest number of listener ids explored for each of the sources followed.
MaxSourceSubscriptions == 7

\* The lists setLayoutSources is given when the sources are followed.
FollowedLists == {<<>>, <<1>>, <<2, 1>>}

\* The visible sets the sources followed are updated to.
SourceTargets == {{}, {1}, {1, 2}}

\* A layout source as its constructor leaves it.
NewSource ==
    [props |-> [getReuseID |-> "parity", reuseID |-> "undefined",
                showDuration |-> kDefaultShowDuration, shouldRenderItem |-> "never"]
               @@ PlainPlacement,
     visible |-> [i \in Indexes |-> undefined], items |-> [id \in ItemIds |-> FreeItem],
     queues |-> [k \in ReuseIDs |-> <<>>], updating |-> FALSE, needsRender |-> FALSE,
     trace |-> <<>>, flow |-> "run", ret |-> undefined, depth |-> 0, overflow |-> FALSE,
     subs |-> {}, listeners |-> {}, uniqueId |-> 0, copies |-> NewCopies,
     values |-> NewValues, renders |-> <<>>, now |-> 1]

\* A source after one of its methods returned: what the call left behind.
\* needsRender is the view's and is not followed for these sources.
Settled(s) ==
    [s EXCEPT !.items = Collect(s), !.trace = <<>>, !.flow = "run", !.ret = undefined,
              !.depth = 0, !.needsRender = FALSE, !.renders = <<>>]

\* setLayoutSources with what its unconfigure() and configure() calls do to the
\* sources.
setLayoutSources_configured(c, layoutSources, needsForcedUpdate, ops) ==
    [setLayoutSources(c, layoutSources) EXCEPT !.sources =
        [i \in SourceIds |->
            IF Among(c.layoutSources, i) /\ ~Among(layoutSources, i)
            THEN Settled(unconfigure(@[i]))
            ELSE IF ~Among(c.layoutSources, i) /\ Among(layoutSources, i)
            THEN Settled(configure(@[i], needsForcedUpdate, ops))
            ELSE @[i]]]

_bindToAppEvents(c) ==
    IF ~c.memoryWarningListener
    THEN Note([c EXCEPT !.memoryWarningListener = TRUE, !.memoryWarningHandlers = @ + 1],
              "addEventListener", 0)
    ELSE c

\* Mutant: the field is cleared and the listener left with AppState.
_unbindFromAppEvents_forgets(c) == [c EXCEPT !.memoryWarningListener = FALSE]

_unbindFromAppEvents(c) ==
    IF c.memoryWarningListener
    THEN Note([c EXCEPT !.memoryWarningListener = FALSE,
                        !.memoryWarningHandlers = IF @ > 0 THEN @ - 1 ELSE 0],
              "removeEventListener", 0)
    ELSE c

componentDidMount(c) == _bindToAppEvents([c EXCEPT !.mounted = "mounted"])

\* cancelScheduledUpdate() does nothing: _updateTimer is never set.
componentWillUnmount(c) ==
    _resetLongPress([stopAnimation(_unbindFromAppEvents([c EXCEPT !.mounted = "unmounted"]))
                        EXCEPT !.subscribed = FALSE])

\* The listener _bindToAppEvents makes.
memoryWarningListener(c) ==
    [c EXCEPT !.sources = [i \in SourceIds |->
                             IF Among(c.layoutSources, i) THEN clearQueue(@[i]) ELSE @[i]],
              !.journal = @ \o [k \in 1..Len(c.layoutSources) |->
                                  [e |-> "clearQueue", arg |-> c.layoutSources[k]]]]

\* AppState emits 'memoryWarning': each handler it holds runs.
RECURSIVE emitMemoryWarning(_, _)
emitMemoryWarning(c, handlers) ==
    IF handlers = 0 THEN c
    ELSE emitMemoryWarning(memoryWarningListener(c), handlers - 1)

(***************************************************************************)
(* Coordinator: the operations as actions.                                 *)
(***************************************************************************)
\* Deepest nesting of update blocks explored.
MaxDepth == 3
\* Largest view offset explored, in pixels, on each axis.
MaxOffset == 4
\* Largest base location offset explored, in content units, on each axis.
MaxLocation == 2

ContainerSizes == {Point(0, 4), Point(4, 4), Point(8, 4)}

Scales == {Point(0, 2), Point(1, 1), Point(2, -1)}

Anchors == {zeroPoint, Point(1, 1)}

Locations == {zeroPoint, Point(1, -1)}

\* The gesture states a move reports: dx, dy as d and vx, vy as v.
Moves ==
    { [d |-> Point(4, 0), v |-> Point(2, -2)],
      [d |-> Point(4, 0), v |-> Point(kPanSpeedMin, 0)],
      [d |-> Point(-2, 2), v |-> Point(0, -8)] }

SourceLists == UNION { Perms(S) : S \in SUBSET SourceIds }

NoScroll ==
    [offset |-> Partial(FALSE, 0, FALSE, 0), animated |-> FALSE, timing |-> FALSE,
     hasVelocity |-> FALSE, velocity |-> zeroPoint, manualStart |-> FALSE, onEnd |-> FALSE]

ScrollOffsets ==
    {Partial(FALSE, 0, FALSE, 0), Partial(TRUE, 1, FALSE, 0), Partial(TRUE, 0, TRUE, -1)}

ScrollOptions ==
    { [NoScroll EXCEPT !.offset = p, !.animated = a[1], !.timing = a[2],
                       !.manualStart = a[3], !.onEnd = a[4]] :
        p \in ScrollOffsets,
        a \in {<<FALSE, FALSE, FALSE, TRUE>>, <<TRUE, TRUE, FALSE, TRUE>>,
               <<TRUE, FALSE, TRUE, FALSE>>} }

Snaps == {NoSnap, [defined |-> TRUE, to |-> Partial(TRUE, 0, FALSE, 0)]}

\* The coordinator's state as the record the methods work on, before an operation.
Layout ==
    [updateDepth |-> _updateDepth, hasContainerSize |-> _hasContainerSize,
     hasScale |-> _hasScale, containerSize |-> _containerSize, scale |-> _scale,
     anchor |-> _anchor, locationOffsetBase |-> _locationOffsetBase,
     locationOffsetBaseValue |-> locationOffsetBaseValue, viewOffset |-> _viewOffset,
     viewOffsetValue |-> viewOffsetValue, panTargetValue |-> panTargetValue,
     panVelocty |-> _panVelocty, panStarted |-> _panStarted,
     panDefaultPrevented |-> _panDefaultPrevented,
     pressInGestureState |-> _pressInGestureState, longPressTimer |-> _longPressTimer,
     timers |-> longPressTimers,
     isLongPress |-> _isLongPress, animation |-> _descelerationAnimation,
     interactionHandle |-> _interactionHandle, layoutSources |-> _layoutSources,
     options |-> options, journal |-> <<>>, flow |-> "run", ret |-> FALSE,
     memoryWarningListener |-> _memoryWarningListener,
     memoryWarningHandlers |-> memoryWarningHandlers, subscribed |-> layoutSubscribed,
     mounted |-> mounted, sources |-> layoutSourceObjects]

NoRequest ==
    [op |-> "none", point |-> zeroPoint, velocity |-> zeroPoint, scroll |-> NoScroll,
     snap |-> NoSnap, ret |-> FALSE, threw |-> FALSE]

Request(op, point, velocity, scroll, snap) ==
    [op |-> op, point |-> point, velocity |-> velocity, scroll |-> scroll,
     snap |-> snap, ret |-> FALSE, threw |-> FALSE]

Resting == request = NoRequest

\* mismatched: an endUpdate() without its beginUpdate() was made at some time.
NoBlock ==
    [peak |-> 0, marks |-> 0, updates |-> 0, asked |-> [i \in SourceIds |-> 0],
     mismatched |-> FALSE]

Within(p, n) == Abs(p.x) <= n /\ Abs(p.y) <= n

Few(n) == IF n > 2 THEN 2 ELSE n

\* A new block's history: only mismatched outlives the block before.
NewBlock == [NoBlock EXCEPT !.mismatched = block.mismatched]

\* The history of the update block: its deepest nesting, the setNeedsUpdate
\* calls made in it, the updates it caused and the times each source was asked.
BlockAfter(c, op) ==
    LET updates == Cardinality({ k \in DOMAIN c.journal : c.journal[k].e = "update" })
        asked(i) == Cardinality({ k \in DOMAIN c.journal :
                        c.journal[k].e = "setNeedsUpdate" /\ c.journal[k].arg = i })
    IN IF op = "update" THEN block
       ELSE IF op = "beginUpdate" /\ _updateDepth = 0 THEN [NewBlock EXCEPT !.peak = 1]
       ELSE IF _updateDepth > 0
       THEN [peak |-> IF c.updateDepth > block.peak THEN c.updateDepth ELSE block.peak,
             marks |-> Few(block.marks + IF op = "setNeedsUpdate" THEN 1 ELSE 0),
             updates |-> Few(block.updates + updates),
             asked |-> [i \in SourceIds |-> Few(block.asked[i] + asked(i))],
             mismatched |-> block.mismatched]
       ELSE [block EXCEPT !.mismatched = @ \/ (op = "endUpdate" /\ c.flow = "throw")]

LayoutBecomes(c, r) ==
    /\ Resting
    /\ c.updateDepth <= MaxDepth
    /\ Within(c.viewOffsetValue, MaxOffset)
    /\ Within(c.locationOffsetBaseValue, MaxLocation)
    /\ Within(c.locationOffsetBase, MaxLocation)
    /\ \A i \in SourceIds :
          /\ ~c.sources[i].overflow
          /\ c.sources[i].uniqueId <= MaxSourceSubscriptions
          /\ \A k \in ReuseIDs : Len(c.sources[i].queues[k]) <= MaxQueue
    /\ _memoryWarningListener' = c.memoryWarningListener
    /\ memoryWarningHandlers' = c.memoryWarningHandlers
    /\ layoutSubscribed' = c.subscribed
    /\ mounted' = c.mounted
    /\ layoutSourceObjects' = c.sources
    /\ _updateDepth' = c.updateDepth
    /\ _hasContainerSize' = c.hasContainerSize
    /\ _hasScale' = c.hasScale
    /\ _containerSize' = c.containerSize
    /\ _scale' = c.scale
    /\ _anchor' = c.anchor
    /\ _locationOffsetBase' = c.locationOffsetBase
    /\ locationOffsetBaseValue' = c.locationOffsetBaseValue
    /\ _viewOffset' = c.viewOffset
    /\ viewOffsetValue' = c.viewOffsetValue
    /\ panTargetValue' = c.panTargetValue
    /\ _panVelocty' = c.panVelocty
    /\ _panStarted' = c.panStarted
    /\ _panDefaultPrevented' = c.panDefaultPrevented
    /\ _pressInGestureState' = c.pressInGestureState
    /\ _longPressTimer' = c.longPressTimer
    /\ longPressTimers' = c.timers
    /\ _isLongPress' = c.isLongPress
    /\ _descelerationAnimation' = c.animation
    /\ _interactionHandle' = c.interactionHandle
    /\ _layoutSources' = c.layoutSources
    /\ journal' = c.journal
    /\ request' = [r EXCEPT !.ret = c.ret, !.threw = (c.flow = "throw")]
    /\ block' = BlockAfter(c, r.op)
    /\ UNCHANGED <<options, converted, srcVars>>

Did(op, c) == LayoutBecomes(c, Request(op, zeroPoint, zeroPoint, NoScroll, NoSnap))

BeginUpdate == Did("beginUpdate", layoutBeginUpdate(Layout)) /\ UNCHANGED responder

EndUpdate == Did("endUpdate", layoutEndUpdate(Layout)) /\ UNCHANGED responder

SetNeedsUpdate == Did("setNeedsUpdate", layoutSetNeedsUpdate(Layout)) /\ UNCHANGED responder

Update == Did("update", update(Layout)) /\ UNCHANGED responder

ContainerSizeChanged ==
    /\ \E p \in ContainerSizes :
          LayoutBecomes(containerSizeListener(Layout, p),
                        Request("containerSize", p, zeroPoint, NoScroll, NoSnap))
    /\ UNCHANGED responder

ScaleChanged ==
    /\ \E p \in Scales :
          LayoutBecomes(scaleListener(Layout, p),
                        Request("scale", p, zeroPoint, NoScroll, NoSnap))
    /\ UNCHANGED responder

AnchorChanged ==
    /\ \E p \in Anchors :
          LayoutBecomes(anchorListener(Layout, p),
                        Request("anchor", p, zeroPoint, NoScroll, NoSnap))
    /\ UNCHANGED responder

\* The application sets the animated offset it gave as the offset option.
LocationOffsetBaseChanged ==
    /\ \E p \in Locations :
          LayoutBecomes(setLocationOffsetBase(Layout, p),
                        Request("offset", p, zeroPoint, NoScroll, NoSnap))
    /\ UNCHANGED responder

SetLayoutSources ==
    /\ \E q \in SourceLists : Did("setLayoutSources", setLayoutSources(Layout, q))
    /\ UNCHANGED responder

\* responder: the pan responder holds the gesture (between start and end).
PanResponderStart ==
    /\ ~responder
    /\ responder' = TRUE
    /\ Did("panStart", _onBeginPan(Layout))

\* onPanResponderStart for a further touch while the responder holds the
\* gesture.
PanResponderStartAgain ==
    /\ responder
    /\ UNCHANGED responder
    /\ Did("panStart", _onBeginPan(Layout))

PanResponderMove ==
    /\ responder
    /\ UNCHANGED responder
    /\ \E g \in Moves :
          LayoutBecomes(onPanResponderMove(Layout, g.d, g.v),
                        Request("panMove", g.d, g.v, NoScroll, NoSnap))

\* The responder's gesture state is not read after the gesture: it is left as
\* the next gesture finds it. The history keeps the view offset and the pan
\* velocity the gesture ended with.
PanResponderEnd ==
    /\ responder
    /\ responder' = FALSE
    /\ \E snap \in Snaps :
          /\ (snap.defined => options.snapToLocation)
          /\ LayoutBecomes([_onPressOut(Layout, snap) EXCEPT !.pressInGestureState = zeroPoint],
                           Request("panEnd", _viewOffset, _panVelocty, NoScroll, snap))

PreventDefaultPan == Did("preventDefaultPan", preventDefaultPan(Layout)) /\ UNCHANGED responder

\* The host runs a long press timeout it has pending.
LongPressTimer ==
    /\ longPressTimers > 0
    /\ UNCHANGED responder
    /\ \E prevents \in BOOLEAN : Did("longPress", longPressTimerFired(Layout, prevents))

ScrollToOffset ==
    /\ UNCHANGED responder
    /\ \E o \in ScrollOptions :
          LayoutBecomes(scrollToOffset(Layout, o),
                        Request("scrollToOffset", zeroPoint, zeroPoint, o, NoSnap))

ScrollBy ==
    /\ UNCHANGED responder
    /\ \E o \in ScrollOptions :
          LayoutBecomes(scrollBy(Layout, o),
                        Request("scrollBy", zeroPoint, zeroPoint, o, NoSnap))

\* The caller starts the animation scrollToOffset returned with manualStart.
CallerStartsAnimation ==
    /\ _descelerationAnimation.manual
    /\ ~_descelerationAnimation.running
    /\ _descelerationAnimation.toValue # locationOffsetBaseValue
    /\ UNCHANGED responder
    /\ Did("start", [Layout EXCEPT !.animation.running = TRUE])

AnimationFrame ==
    /\ _descelerationAnimation.running
    /\ UNCHANGED responder
    /\ Did("frame", animationFrame(Layout))

AnimationEnd ==
    /\ _descelerationAnimation.running
    /\ UNCHANGED responder
    /\ Did("animationEnd", animationEnd(Layout))

\* A component is mounted once.
ComponentDidMount ==
    /\ mounted = "constructed"
    /\ UNCHANGED responder
    /\ Did("componentDidMount", componentDidMount(Layout))

ComponentWillUnmount ==
    /\ mounted = "mounted"
    /\ UNCHANGED responder
    /\ Did("componentWillUnmount", componentWillUnmount(Layout))

MemoryWarning ==
    /\ UNCHANGED responder
    /\ Did("memoryWarning", emitMemoryWarning(Layout, memoryWarningHandlers))

\* setLayoutSources of a coordinator whose sources are followed.
ConfigureLayoutSources ==
    /\ UNCHANGED responder
    /\ \E q \in FollowedLists, needsForcedUpdate \in BOOLEAN, target \in SourceTargets :
         \E ops \in itemUpdates([i \in Indexes |-> undefined], target) :
            /\ (~needsForcedUpdate => target = {})
            /\ Did("setLayoutSources",
                   setLayoutSources_configured(Layout, q, needsForcedUpdate, ops))

\* updateItems of one of the sources, registered or not: updateItems(view), or
\* with create as the view calls it when it renders.
SourceUpdateItems ==
    /\ UNCHANGED responder
    /\ \E i \in SourceIds, target \in SourceTargets, create \in BOOLEAN :
         \E ops \in itemUpdates(layoutSourceObjects[i].visible, target) :
            Did("updateItems",
                [Layout EXCEPT !.sources[i] =
                    Settled(updateItems(@, ops, [DefaultOptions EXCEPT !.create = create],
                                        NoPlan))])

\* An animated scroll of a coordinator whose listeners are attached.
ScrollWhileSubscribed ==
    /\ layoutSubscribed
    /\ UNCHANGED responder
    /\ \E o \in { s \in ScrollOptions : s.animated /\ s.timing /\ s.offset.hasX } :
          LayoutBecomes(scrollToOffset(Layout, o),
                        Request("scrollToOffset", zeroPoint, zeroPoint, o, NoSnap))

\* Control is back in the event loop: the history of the operation is dropped.
ReturnLayout ==
    /\ ~Resting
    /\ journal' = <<>>
    /\ request' = NoRequest
    /\ block' = IF _updateDepth = 0 THEN NewBlock ELSE block
    /\ UNCHANGED <<_updateDepth, _hasContainerSize, _hasScale, _containerSize, _scale,
                   _anchor, _locationOffsetBase, locationOffsetBaseValue, _viewOffset,
                   viewOffsetValue, panTargetValue, _panVelocty, _panStarted,
                   _panDefaultPrevented, _pressInGestureState, _longPressTimer,
                   longPressTimers, _isLongPress, _descelerationAnimation, _interactionHandle,
                   _layoutSources, options, responder, converted, srcVars,
                   _memoryWarningListener, memoryWarningHandlers, layoutSubscribed,
                   mounted, layoutSourceObjects>>

\* The options given to the constructor; of a callback, whether it is given.
DefaultLayoutOptions ==
    [panTarget |-> "viewOffset", snapToLocation |-> FALSE, onViewportSizeChanged |-> TRUE,
     onScaleChanged |-> TRUE, horizontalPanEnabled |-> TRUE, verticalPanEnabled |-> TRUE,
     onPressIn |-> TRUE, onPressOut |-> TRUE, onPress |-> TRUE, onLongPress |-> TRUE]

NoConversion ==
    [done |-> FALSE, point |-> zeroPoint, container |-> zeroPoint, back |-> zeroPoint,
     location |-> zeroPoint]

\* No update block, gesture or animation, as the constructor leaves them.
Untouched ==
    /\ _updateDepth = 0
    /\ converted = NoConversion
    /\ panTargetValue = zeroPoint
    /\ _panVelocty = zeroPoint
    /\ _panStarted = FALSE
    /\ _panDefaultPrevented = FALSE
    /\ _pressInGestureState = zeroPoint
    /\ _longPressTimer = "undefined"
    /\ longPressTimers = 0
    /\ _isLongPress = FALSE
    /\ _descelerationAnimation = NoAnimation
    /\ _interactionHandle = 0
    /\ responder = FALSE
    /\ journal = <<>>
    /\ request = NoRequest
    /\ block = NoBlock
    /\ _memoryWarningListener = FALSE
    /\ memoryWarningHandlers = 0
    /\ layoutSubscribed = TRUE
    /\ mounted = "constructed"
    /\ layoutSourceObjects = [i \in SourceIds |-> NewSource]

\* The coordinator after its constructor, but for what the specifications vary.
Constructed ==
    /\ Untouched
    /\ _anchor = zeroPoint
    /\ _locationOffsetBase = zeroPoint
    /\ locationOffsetBaseValue = zeroPoint
    /\ _viewOffset = zeroPoint
    /\ viewOffsetValue = zeroPoint

\* A coordinator that nothing drives, for the specifications of the source.
QuietLayout ==
    /\ Constructed
    /\ _hasContainerSize = FALSE
    /\ _hasScale = FALSE
    /\ _containerSize = zeroPoint
    /\ _scale = Point(1, 1)
    /\ _layoutSources = <<>>
    /\ options = DefaultLayoutOptions

\* A source that nothing drives, for the specifications of the coordinator.
QuietSource ==
    /\ InitSource
    /\ props.getReuseID = "parity"

InitCoord ==
    /\ Constructed
    /\ _hasContainerSize = FALSE
    /\ _hasScale = FALSE
    /\ _containerSize = zeroPoint
    /\ _scale \in {Point(1, 1), zeroPoint}
    /\ _layoutSources \in {<<>>, <<2, 1>>}
    /\ options = DefaultLayoutOptions
    /\ QuietSource

NextCoord ==
    \/ ReturnLayout
    \/ BeginUpdate
    \/ EndUpdate
    \/ SetNeedsUpdate
    \/ Update
    \/ ContainerSizeChanged
    \/ ScaleChanged
    \/ AnchorChanged
    \/ LocationOffsetBaseChanged
    \/ SetLayoutSources

\* The coordinator once its view is laid out: the first update has run.
InitPan ==
    /\ Constructed
    /\ _hasContainerSize = TRUE
    /\ _hasScale = TRUE
    /\ _containerSize = Point(4, 4)
    /\ _scale = Point(2, -2)
    /\ _layoutSources = <<1>>
    /\ options \in { DefaultLayoutOptions,
                      [DefaultLayoutOptions EXCEPT !.snapToLocation = TRUE],
                      [DefaultLayoutOptions EXCEPT !.panTarget = "custom"] }
    /\ QuietSource

NextPan ==
    \/ ReturnLayout
    \/ PanResponderStart
    \/ PanResponderMove
    \/ PanResponderEnd
    \/ PreventDefaultPan
    \/ LongPressTimer
    \/ ScrollToOffset
    \/ ScrollBy
    \/ CallerStartsAnimation
    \/ AnimationFrame
    \/ AnimationEnd

\* The gestures of SpecPan with touches that start while the responder holds
\* the gesture.
NextPress ==
    \/ ReturnLayout
    \/ PanResponderStart
    \/ PanResponderStartAgain
    \/ PanResponderMove
    \/ PanResponderEnd
    \/ PreventDefaultPan
    \/ LongPressTimer
    \/ ScrollToOffset
    \/ ScrollBy
    \/ CallerStartsAnimation
    \/ AnimationFrame
    \/ AnimationEnd

\* The coordinator laid out, before it is mounted, with the sources the
\* application made.
InitMount ==
    /\ Constructed
    /\ _hasContainerSize = TRUE
    /\ _hasScale = TRUE
    /\ _containerSize = Point(4, 4)
    /\ _scale = Point(2, -2)
    /\ _layoutSources = <<>>
    /\ options = DefaultLayoutOptions
    /\ QuietSource

NextMount ==
    \/ ReturnLayout
    \/ ComponentDidMount
    \/ ComponentWillUnmount
    \/ MemoryWarning
    \/ ConfigureLayoutSources
    \/ SourceUpdateItems
    \/ ScrollWhileSubscribed

\* The content points converted.
Points == {zeroPoint, Point(1, -2), Point(-3, 2)}

\* getContainerLocation(p) and what getLocation makes of the result, given as
\* it is and given as the view coordinate viewOffset - container.
GetContainerLocation ==
    /\ \E p \in Points :
          LET c == Layout
              container == layoutGetContainerLocation(c, p, zeroPoint)
          IN converted' =
                [done |-> TRUE, point |-> p, container |-> container,
                 back |-> layoutGetLocation(c, container),
                 location |-> layoutGetLocation(c,
                                 Point(c.viewOffset.x - container.x, c.viewOffset.y - container.y))]
    /\ UNCHANGED <<_updateDepth, _hasContainerSize, _hasScale, _containerSize, _scale,
                   _anchor, _locationOffsetBase, locationOffsetBaseValue, _viewOffset,
                   viewOffsetValue, panTargetValue, _panVelocty, _panStarted,
                   _panDefaultPrevented, _pressInGestureState, _longPressTimer,
                   longPressTimers, _isLongPress, _descelerationAnimation, _interactionHandle,
                   _layoutSources, options, responder, journal, request, block, srcVars,
                   _memoryWarningListener, memoryWarningHandlers, layoutSubscribed,
                   mounted, layoutSourceObjects>>

\* Coordinator states with a scale that is not zero, at rest.
\* The content layouts placed: offsets on either side of the origin, sizes
\* not negative.
ContentLayouts ==
    { [offset |-> o, size |-> z] : o \in {zeroPoint, Point(1, -2), Point(-3, 2)},
                                  z \in {zeroPoint, Point(2, 3)} }

\* getItemViewLayout(contentLayout, view) and the value of
\* createItemViewLayout$ for the same layout, with the container locations
\* of the content offset and the copies the source held
GetItemViewLayout ==
    /\ \E contentLayout \in ContentLayouts :
          placed' = [done |-> TRUE, grid |-> FALSE, index |-> zeroPoint,
                     copies |-> sourceCopies, content |-> contentLayout,
                     container |-> getContainerLocation(Source, Layout, contentLayout.offset),
                     containerValue |->
                        getContainerLocation_value(Source, Layout, contentLayout.offset),
                     view |-> getItemViewLayout(Source, Layout, contentLayout),
                     viewValue |-> createItemViewLayout_value(Source, Layout, contentLayout)]
    /\ UNCHANGED <<props, visible, items, _itemQueues, _updating, needsRender, trace, call,
                   sourceCopies, sourceValues, _animatedSubscriptions, animatedListeners,
                   uniqueId, renders, layoutVars>>

\* The grid indexes placed.
GridIndexes == {zeroPoint, Point(2, 3), Point(-1, 1)}

\* The item layout of a grid index: the content layout the grid subclass
\* gives it, and where the source places it.
GetGridItemLayout ==
    /\ \E index \in GridIndexes :
          placed' = [done |-> TRUE, grid |-> TRUE, index |-> index, copies |-> sourceCopies,
                     content |-> gridItemContentLayout(Source, index),
                     container |->
                        getContainerLocation(Source, Layout,
                                             gridItemContentLayout(Source, index).offset),
                     containerValue |->
                        getContainerLocation_value(Source, Layout,
                                                   gridItemContentLayout(Source, index).offset),
                     view |-> getItemViewLayout(Source, Layout,
                                                gridItemContentLayout(Source, index)),
                     viewValue |->
                        createItemViewLayout_value(Source, Layout,
                                                   gridItemContentLayout(Source, index))]
    /\ UNCHANGED <<props, visible, items, _itemQueues, _updating, needsRender, trace, call,
                   sourceCopies, sourceValues, _animatedSubscriptions, animatedListeners,
                   uniqueId, renders, layoutVars>>

\* The insets drawn: none, and one with four different sides.
InsetsSet == {kZeroInsets, [top |-> 1, right |-> 2, bottom |-> 3, left |-> 4]}

\* The placements drawn: every sticky edge and none, an origin at and off
\* zero, a scale of either sign on each axis, with and without insets.
PlacedPropsSet ==
    { [getReuseID |-> "parity", reuseID |-> "undefined",
       showDuration |-> kDefaultShowDuration, shouldRenderItem |-> "moved",
       stickyEdge |-> e, itemSize |-> Point(1, 1),
       origin |-> o, scale |-> k, insets |-> i] :
         e \in {"undefined", "top", "left", "bottom", "right"},
         o \in {zeroPoint, Point(1, -1)},
         k \in {Point(1, 1), Point(-1, 2), Point(2, -1)},
         i \in InsetsSet }
    \cup { [getReuseID |-> "parity", reuseID |-> "undefined",
             showDuration |-> kDefaultShowDuration, shouldRenderItem |-> "moved",
             stickyEdge |-> "undefined",
             itemSize |-> Point(50, 50), origin |-> zeroPoint, scale |-> Point(1, 1),
             insets |-> kZeroInsets] }

\* scale$ of a configured layout source emits a value: the source holds a
\* listener on it.
SourceScaleChanged ==
    /\ \E l \in animatedListeners : l.value = "scale"
    /\ \E p \in Scales, target \in SUBSET Indexes :
         \E ops \in itemUpdates(visible, target) :
            Becomes(sourceScaleListener(Source, p, ops),
                    Call("scale", undefined, target, ops, DefaultOptions, NoPlan))

\* A coordinator as constructed, with a scale given or zero, and a constructed
\* layout source with a scale prop.
InitScale ==
    /\ Constructed
    /\ _hasContainerSize = FALSE
    /\ _hasScale = FALSE
    /\ _containerSize = zeroPoint
    /\ _scale \in {Point(1, 1), zeroPoint}
    /\ _layoutSources = <<>>
    /\ options \in {DefaultLayoutOptions,
                     [DefaultLayoutOptions EXCEPT !.onScaleChanged = ~@]}
    /\ InitSource
    /\ props.getReuseID = "parity"

\* A constructed layout source with its placement props, in a laid out view.
InitPlace ==
    /\ Untouched
    /\ _hasContainerSize = TRUE
    /\ _hasScale = TRUE
    /\ _containerSize = Point(300, 300)
    /\ _scale \in {Point(1, 1), Point(-2, 2)}
    /\ _anchor \in {zeroPoint, Point(1, 1)}
    /\ _locationOffsetBase \in Locations
    /\ locationOffsetBaseValue = _locationOffsetBase
    /\ _viewOffset \in {zeroPoint, Point(4, -2)}
    /\ viewOffsetValue = _viewOffset
    /\ _layoutSources = <<>>
    /\ options = DefaultLayoutOptions
    /\ props \in PlacedPropsSet
    /\ visible = [i \in Indexes |-> undefined]
    /\ items = [id \in ItemIds |-> FreeItem]
    /\ _itemQueues = [k \in ReuseIDs |-> <<>>]
    /\ _updating = FALSE
    /\ needsRender = FALSE
    /\ trace = <<>>
    /\ call = NoCall
    /\ _animatedSubscriptions = {}
    /\ animatedListeners = {}
    /\ uniqueId = 0
    /\ sourceCopies = NewCopies
    /\ sourceValues = NewValues
    /\ placed = NoLayout
    /\ renders = <<>>

InitGeom ==
    /\ Untouched
    /\ _hasContainerSize = TRUE
    /\ _hasScale = TRUE
    /\ _containerSize \in {Point(4, 4), Point(8, 4)}
    /\ _scale \in {Point(1, 1), Point(2, -1), Point(-2, 2)}
    /\ _anchor \in {zeroPoint, Point(1, 1), Point(2, 0)}
    /\ _locationOffsetBase \in Locations
    /\ locationOffsetBaseValue = _locationOffsetBase
    /\ _viewOffset \in {zeroPoint, Point(4, -2)}
    /\ viewOffsetValue = _viewOffset
    /\ _layoutSources = <<>>
    /\ options = DefaultLayoutOptions
    /\ QuietSource

NextSource ==
    \/ Return
    \/ UpdateItems
    \/ QueueItem
    \/ DequeueItem
    \/ CreateItem
    \/ ClearQueue
    \/ Reset

\* A layout source configured and unconfigured between its updates.
NextConfigure ==
    \/ Return
    \/ UpdateItems
    \/ Configure
    \/ Unconfigure

vars == <<srcVars, layoutVars>>

\* A layout source on its own: its coordinator stays as constructed.
InitLayoutSource == InitSource /\ QuietLayout

SpecSource == InitLayoutSource /\ [][NextSource]_vars

SpecReentrant == InitLayoutSource /\ [][Return \/ UpdateItemsReentrant]_vars

SpecConfigure == InitLayoutSource /\ [][NextConfigure]_vars

\* A layout source updated at the times of a clock that may stand still.
NextReuse ==
    \/ Return
    \/ UpdateItemsAt
    \/ SourceSetNeedsUpdate

SpecReuse == InitLayoutSource /\ [][NextReuse]_vars

SpecCoord == InitCoord /\ [][NextCoord]_vars

SpecPan == InitPan /\ [][NextPan]_vars

SpecPress == InitPan /\ [][NextPress]_vars

SpecMount == InitMount /\ [][NextMount]_vars

SpecGeom == InitGeom /\ [][GetContainerLocation]_vars

\* The scale of a coordinator and of a layout source, emitted by their
\* animated values; one handler runs at a time.
NextScale ==
    \/ ReturnLayout
    \/ Return
    \/ Idle /\ Update
    \/ Idle /\ ContainerSizeChanged
    \/ Idle /\ ScaleChanged
    \/ Resting /\ Configure
    \/ Resting /\ Unconfigure
    \/ Resting /\ SourceScaleChanged

SpecScale == InitScale /\ [][NextScale]_vars

\* A layout source configured with its placement and asked where items go.
NextPlace ==
    \/ Configure
    \/ GetItemViewLayout
    \/ GetGridItemLayout

SpecPlace == InitPlace /\ [][NextPlace]_vars

(***************************************************************************)
(* Properties of the layout source.                                        *)
(***************************************************************************)
\* The places of the last operation's history where event e was recorded.
EventsOf(e) == { k \in DOMAIN trace : trace[k].e = e }

Committed == EventsOf("commitUpdate") # {}

Aborted == EventsOf("setNeedsRender") # {}

Injective(q) == \A m, n \in DOMAIN q : m # n => q[m] # q[n]

C4_PoolsKeyedByReuseID ==
    /\ \A k \in ReuseIDs : \A n \in DOMAIN _itemQueues[k] :
           items[_itemQueues[k][n]].reuseID = k
    /\ \A n \in EventsOf("dequeueItem") :
           items[trace[n].item].reuseID = getReuseID(Source, trace[n].index)
    /\ call.op = "dequeueItem" => (call.ret = undefined <=> call.pooled = 0)

\* dequeueItem returned nothing although the pool of another key holds a record.
C4_Witness ==
    /\ call.op = "dequeueItem"
    /\ call.ret = undefined
    /\ getReuseID(Source, call.index) # ""
    /\ QueuedIds(_itemQueues) # {}

\* C9 as stated: while an updateItems call is in progress, every further
\* attempt to begin an update on the source throws and applies no operation.
\* It fails: the first rejected attempt clears _updating, so the next begins.
C9_ReentrantUpdateRejected ==
    \A k \in DOMAIN trace :
        trace[k].depth >= 2 =>
            trace[k].e \notin {"beginUpdate", "yield", "queueItem", "dequeueItem", "createItem"}

\* C10: in updateItems with creation disabled no record is created, and an
\* addition for which nothing is dequeued ends the call at once: cancelUpdate,
\* then view.setNeedsRender(), nothing after it, no commit, no update pass, and
\* that operation and the later ones of the sequence are not applied.
C10_AbortWhenNothingPooled ==
    (call.op = "updateItems" /\ ~call.opts.create) =>
        /\ EventsOf("createItem") = {}
        /\ \A k \in EventsOf("yield") :
              LET op == call.ops[trace[k].index]
                  isAdd == ~(call.opts.queue /\ op.remove # undefined) /\ op.add # undefined
                  dequeued == /\ k + 1 < Len(trace)
                              /\ trace[k + 1].e = "dequeueItem"
                              /\ trace[k + 1].index = op.add
              IN (isAdd /\ ~dequeued) =>
                    /\ Len(trace) = k + 2
                    /\ trace[k + 1].e = "cancelUpdate"
                    /\ trace[k + 2].e = "setNeedsRender"
                    /\ needsRender
                    /\ ~_updating
                    /\ ~Committed
                    /\ EventsOf("updateItem") = {}
                    /\ \A j \in trace[k].index..Len(call.ops) :
                          /\ call.ops[j].add # undefined => visible[call.ops[j].add] = undefined
                          /\ call.ops[j].remove # undefined => visible[call.ops[j].remove] # undefined

\* An update without creation was cut short with an operation still to come.
C10_Witness ==
    /\ call.op = "updateItems" /\ ~call.opts.create
    /\ Aborted
    /\ Cardinality(EventsOf("yield")) < Len(call.ops)

(***************************************************************************)
(* Properties of the coordinator.                                          *)
(***************************************************************************)
Noted(e) == { k \in DOMAIN journal : journal[k].e = e }

\* C1: while an update block is open no update() has run since its outermost
\* beginUpdate, however deep the nesting and however many setNeedsUpdate calls
\* were made in it; the endUpdate that closes it leaves exactly one update()
\* run, with each registered source asked at most once.
C1_OneUpdatePerBlock ==
    /\ _updateDepth > 0 => block.updates = 0
    /\ (request.op = "endUpdate" /\ ~request.threw /\ _updateDepth = 0) =>
          /\ block.updates = 1
          /\ Cardinality(Noted("update")) = 1
          /\ \A i \in SourceIds : block.asked[i] <= 1

\* A block nested twice with two setNeedsUpdate calls inside was closed and its
\* one update asked a source.
C1_Witness ==
    /\ request.op = "endUpdate" /\ ~request.threw /\ _updateDepth = 0
    /\ block.peak >= 2
    /\ block.marks >= 2
    /\ \E i \in SourceIds : block.asked[i] = 1

\* The sources update() number k of journal j asked, in order.
AsksAfter(j, k) ==
    LET n == CHOOSE m \in 0..(Len(j) - k) :
                 /\ \A i \in 1..m : j[k + i].e = "setNeedsUpdate"
                 /\ (k + m = Len(j) \/ j[k + m + 1].e # "setNeedsUpdate")
    IN [i \in 1..n |-> j[k + i].arg]

\* C8: a latch once set stays set, and is set only with a container size of at
\* least 1x1, a scale with no zero component, observed; while a latch is
\* unset no source is asked to update; with both set, every update() asks
\* the registered sources, each once, in registration order.
C8_UpdateLatches ==
    [][ /\ _hasContainerSize => _hasContainerSize'
        /\ _hasScale => _hasScale'
        /\ (~_hasContainerSize /\ _hasContainerSize') =>
              (_containerSize'.x >= 1 /\ _containerSize'.y >= 1)
        /\ (~_hasScale /\ _hasScale') => (_scale'.x # 0 /\ _scale'.y # 0)
        /\ ~(_hasContainerSize' /\ _hasScale') =>
              { k \in DOMAIN journal' : journal'[k].e = "setNeedsUpdate" } = {}
        /\ (_hasContainerSize /\ _hasScale) =>
              \A k \in DOMAIN journal' :
                  journal'[k].e = "update" => AsksAfter(journal', k) = _layoutSources'
      ]_vars

\* With both latches set an update asked two registered sources, in order.
C8_Witness ==
    /\ _hasContainerSize /\ _hasScale
    /\ Len(_layoutSources) = 2
    /\ \E k \in Noted("update") : AsksAfter(journal, k) = _layoutSources
    /\ request.op \in {"update", "setNeedsUpdate", "endUpdate"}

\* C6: scrollToOffset or scrollBy called while a pan is active returns no
\* animation, leaves the base location offset, the view offset, the pan
\* velocity, the animation held, the interaction handle and the update depth
\* as they were, and runs no update.
C6_ScrollRefusedWhilePanning ==
    [][ (_panStarted /\ ~_panDefaultPrevented /\ request'.op \in {"scrollToOffset", "scrollBy"}) =>
            /\ ~request'.ret
            /\ { k \in DOMAIN journal' : journal'[k].e = "update" } = {}
            /\ UNCHANGED <<_locationOffsetBase, locationOffsetBaseValue, _viewOffset,
                           viewOffsetValue, _panVelocty, _descelerationAnimation,
                           _interactionHandle, _updateDepth>>
      ]_vars

\* An animated scroll was asked while a pan had moved the content.
C6_Witness ==
    /\ request.op = "scrollToOffset"
    /\ request.scroll.animated /\ request.scroll.offset.hasX
    /\ _panStarted /\ ~_panDefaultPrevented
    /\ viewOffsetValue # zeroPoint
    /\ _panVelocty # zeroPoint

\* What C7 asks of the end of a default pan that was not prevented and that
\* snapToLocation did not take, fast telling whether the velocity at release
\* calls for a decay.
EndOfPan(fast) ==
    (/\ request'.op = "panEnd"
     /\ _panStarted /\ ~_panDefaultPrevented
     /\ options.panTarget = "viewOffset"
     /\ ~request'.snap.defined) =>
        IF fast
        THEN /\ _descelerationAnimation' =
                    [kind |-> "decay", toValue |-> zeroPoint, velocity |-> _panVelocty,
                     running |-> TRUE, manual |-> FALSE, onEnd |-> FALSE]
             /\ { k \in DOMAIN journal' : journal'[k].e = "start" } # {}
        ELSE /\ _descelerationAnimation' = NoAnimation
             /\ { k \in DOMAIN journal' : journal'[k].e = "start" } = {}
             /\ _viewOffset' = zeroPoint
             /\ viewOffsetValue' = zeroPoint
             /\ _locationOffsetBase' =
                    Point(_locationOffsetBase.x + Quotient(_viewOffset.x, _scale.x),
                          _locationOffsetBase.y + Quotient(_viewOffset.y, _scale.y))
             /\ locationOffsetBaseValue' = _locationOffsetBase'
             /\ _interactionHandle' = 0

\* C7 as stated: the decay starts if and only if the velocity magnitude exceeds
\* 0.001 on at least one axis. It fails at a magnitude of exactly 0.001.
C7_Original ==
    [][EndOfPan(Abs(_panVelocty.x) > kPanSpeedMin \/ Abs(_panVelocty.y) > kPanSpeedMin)]_vars

\* C7 amended: when a default pan that was not prevented ends and
\* snapToLocation is absent or declines, a decay seeded with the pixel-space
\* pan velocity is started if and only if the velocity magnitude is at least
\* 0.001 on at least one axis; otherwise no animation is started, the view
\* offset is merged into the base location, the pan target is zero and the
\* interaction handle is released.
C7_DecayFromThreshold ==
    [][EndOfPan(Abs(_panVelocty.x) >= kPanSpeedMin \/ Abs(_panVelocty.y) >= kPanSpeedMin)]_vars

\* A pan was released at exactly the threshold on one axis and decays.
C7_Witness ==
    /\ request.op = "panEnd"
    /\ _descelerationAnimation.kind = "decay"
    /\ _descelerationAnimation.running
    /\ _descelerationAnimation.velocity = Point(kPanSpeedMin, 0)

\* C5 as stated: getLocation(getContainerLocation(p)) = p. It fails:
\* getLocation reads its argument as the view coordinate viewOffset - container.
C5_Original == converted.done => converted.back = converted.point

\* C5 amended: for every coordinator state with both scale components
\* non-zero and every content point p, getLocation applied to the view offset
\* minus getContainerLocation(p) is p.
C5_RoundTripThroughViewCoordinates == converted.done => converted.location = converted.point

\* A point off the origin was converted with a view offset, a base offset, an
\* anchor and a negative scale in play.
C5_Witness ==
    /\ converted.done
    /\ converted.point # zeroPoint
    /\ _viewOffset # zeroPoint /\ _locationOffsetBase # zeroPoint /\ _anchor # zeroPoint
    /\ _scale.y < 0

(***************************************************************************)
(* Properties of the layout source: failures during an update.             *)
(***************************************************************************)
\* The place in the history where the outermost updateItems caught an exception.
Caught == { k \in EventsOf("catch") : trace[k].depth = 1 }

\* The operation of the outermost call that was being processed at place k.
OperationAt(k) ==
    LET before == { j \in EventsOf("yield") : j < k /\ trace[j].depth = 1 }
    IN IF before = {} THEN 0
       ELSE trace[CHOOSE j \in before : \A i \in before : i <= j].index

\* C11 as stated: when an exception is thrown while updateItems processes its
\* sequence, the exception does not reach the caller, the update is cancelled,
\* a render is requested on the view, and the removals and additions applied
\* before the failing operation stay applied.
\* It fails: the catch block cancels the update and requests no render.
C11_FailureCancelsAndRequestsRender ==
    \A k \in Caught :
        /\ ~call.threw
        /\ ~_updating
        /\ \E j \in EventsOf("cancelUpdate") : j > k /\ trace[j].depth = 1
        /\ \E j \in EventsOf("setNeedsRender") : j > k /\ trace[j].depth = 1
        /\ \A n \in 1..(OperationAt(k) - 1) :
              /\ call.ops[n].remove # undefined => visible[call.ops[n].remove] = undefined
              /\ call.ops[n].add # undefined => visible[call.ops[n].add] # undefined

\* The outermost updateItems was cancelled (by its catch block or by an
\* addition that could not be satisfied).
Cancelled == \E j \in EventsOf("cancelUpdate") : trace[j].depth = 1

\* The places of the history that belong to the last operation the outermost
\* call took from itemUpdates().
LastOperation ==
    LET yields == { j \in EventsOf("yield") : trace[j].depth = 1 }
    IN IF yields = {} THEN {}
       ELSE { j \in DOMAIN trace : j > (CHOOSE y \in yields : \A i \in yields : i <= y)
                                      /\ trace[j].depth = 1 }

\* C12 as stated: when updateItems is cancelled at operation k, the pools and
\* the visible map are what operations 1..k-1 left: the record operation k took
\* from a pool is still in a pool, and the record it was retiring is still
\* bound to its index.
\* It fails: dequeueItem pops the record before willShowItem can throw, and the
\* record is then neither pooled nor visible.
C12_FailingOperationChangesNothing ==
    (call.op = "updateItems" /\ Cancelled) =>
        \A j \in LastOperation :
            /\ trace[j].e = "dequeueItem" => trace[j].item \in QueuedIds(_itemQueues)
            /\ trace[j].e = "queueItem" => visible[trace[j].index] = trace[j].item

\* C13: endUpdate at depth 0 throws, runs no update() and leaves the depth at
\* 0 with the rest of the coordinator as it was; endUpdate at a positive depth
\* does not throw; the depth is never negative; and once a mismatched endUpdate
\* was made, the endUpdate that closes a later block still leaves exactly one
\* update() run.
C13_MismatchedEndUpdate ==
    /\ [](_updateDepth >= 0)
    /\ [][(request.op = "none" /\ request'.op = "endUpdate") =>
            /\ request'.threw <=> (_updateDepth = 0)
            /\ request'.threw =>
                  /\ _updateDepth' = 0
                  /\ journal' = <<>>
                  /\ UNCHANGED <<_hasContainerSize, _hasScale, _containerSize, _scale,
                                 _anchor, _locationOffsetBase, _viewOffset, _layoutSources>>]_vars
    /\ []((block.mismatched /\ request.op = "endUpdate" /\ ~request.threw /\ _updateDepth = 0) =>
            /\ block.updates = 1
            /\ Cardinality(Noted("update")) = 1)

\* After a mismatched endUpdate, a block was opened and closed and its one
\* update() asked a source.
C13_Witness ==
    /\ block.mismatched
    /\ request.op = "endUpdate" /\ ~request.threw /\ _updateDepth = 0
    /\ block.peak >= 1
    /\ Cardinality(Noted("update")) = 1
    /\ Noted("setNeedsUpdate") # {}

(***************************************************************************)
(* Properties of the layout source: the records.                           *)
(***************************************************************************)
\* C14 as stated: a record bound in the visible map under index i has
\* record.index = i, and the record dequeueItem(i) returns has index i.
\* It fails: only createItem sets record.index; a record taken from a pool
\* keeps the index it was created for.
C14_VisibleRecordHasItsIndex ==
    /\ \A i \in Indexes : visible[i] # undefined => items[visible[i]].index = i
    /\ (call.op = "dequeueItem" /\ call.ret # undefined) => items[call.ret].index = call.index

\* C15: a record whose reuseID is the empty string is in no pool; queueItem of
\* an index whose reuse ID is empty unbinds the record and pushes it on no
\* queue; dequeueItem of such an index returns no record.
C15_EmptyReuseIDNeverPooled ==
    /\ _itemQueues[""] = <<>>
    /\ \A id \in QueuedIds(_itemQueues) : items[id].reuseID # ""
    /\ \A n \in EventsOf("queueItem") :
           getReuseID(Source, trace[n].index) = "" =>
               trace[n].item \notin QueuedIds(_itemQueues)
    /\ (call.op = "queueItem" /\ getReuseID(Source, call.index) = "") =>
           visible[call.index] = undefined
    /\ \A n \in EventsOf("dequeueItem") : getReuseID(Source, trace[n].index) # ""
    /\ (call.op = "dequeueItem" /\ getReuseID(Source, call.index) = "") =>
           call.ret = undefined

\* A visible record with the empty reuse ID was retired while another record
\* is pooled.
C15_Witness ==
    /\ call.op = "queueItem"
    /\ getReuseID(Source, call.index) = ""
    /\ EventsOf("queueItem") # {}
    /\ QueuedIds(_itemQueues) # {}

(***************************************************************************)
(* Properties of the layout source: the order of an update.                *)
(***************************************************************************)
\* The places of the history where updateItems took a removal, an addition.
RemovalsTaken == { k \in EventsOf("yield") : call.ops[trace[k].index].remove # undefined }

AdditionsTaken == { k \in EventsOf("yield") : call.ops[trace[k].index].add # undefined }

\* C16 as stated: in one updateItems call every removal is processed before
\* any addition, and every addition before the update pass, for every order
\* in which itemUpdates() yields.
\* It fails: the loop takes the operations in the order they are yielded.
C16_Original ==
    call.op = "updateItems" =>
        /\ \A r \in RemovalsTaken, a \in AdditionsTaken : r < a
        /\ \A a \in AdditionsTaken, u \in EventsOf("updateItem") : a < u

\* C16 amended: in one updateItems call the operations are processed in the
\* order itemUpdates() yields them, each finished before the next is taken, and
\* the update pass starts only after all of them were processed.
C16_ProcessedInYieldedOrder ==
    call.op = "updateItems" =>
        /\ \A a, b \in EventsOf("yield") : a < b <=> trace[a].index < trace[b].index
        /\ { trace[k].index : k \in EventsOf("yield") } = 1..Cardinality(EventsOf("yield"))
        /\ \A k \in DOMAIN trace :
              trace[k].e \in {"queueItem", "dequeueItem", "createItem"} =>
                  \E y \in EventsOf("yield") :
                      /\ y < k
                      /\ \A z \in EventsOf("yield") : z <= y \/ z > k
                      /\ trace[k].index \in {call.ops[trace[y].index].remove,
                                             call.ops[trace[y].index].add}
        /\ EventsOf("updateItem") # {} =>
              /\ Cardinality(EventsOf("yield")) = Len(call.ops)
              /\ \A y \in EventsOf("yield"), u \in EventsOf("updateItem") : y < u

\* An update that was yielded an addition before a removal processed both,
\* then made its update pass.
C16_Witness ==
    /\ call.op = "updateItems"
    /\ \E r \in RemovalsTaken, a \in AdditionsTaken : a < r
    /\ EventsOf("queueItem") # {}
    /\ EventsOf("dequeueItem") \cup EventsOf("createItem") # {}
    /\ EventsOf("updateItem") # {}

(***************************************************************************)
(* Properties of the coordinator: the end of pans and animations.          *)
(***************************************************************************)
\* The step ends the pan gesture.
PanEnds == _panStarted /\ ~_panStarted'

\* The step ends the pan by preventDefaultPan (called by the application, or
\* by its onLongPress callback).
PanPrevented == PanEnds /\ request'.op \in {"preventDefaultPan", "longPress"}

\* The step leaves the pan's movement to a decay it starts.
DecayStarts == PanEnds /\ _descelerationAnimation'.kind = "decay"

\* The step completes the running animation.
AnimationCompletes == request'.op = "animationEnd"

\* The step stops the running animation: a pan begins, or a scroll is accepted.
AnimationStopped ==
    /\ _descelerationAnimation.running
    /\ \/ request'.op = "panStart"
       \/ /\ request'.op \in {"scrollToOffset", "scrollBy"}
          /\ ~_panStarted
          /\ request'.scroll.offset.hasX \/ request'.scroll.offset.hasY

\* The view offset is merged into the base location offset, which was first
\* put at base: afterwards the view offset is zero and the base location
\* offset is base plus the view offset divided by the scale, per axis.
MergedFrom(base) ==
    /\ _viewOffset' = zeroPoint
    /\ _locationOffsetBase' = locationOffset([Layout EXCEPT !.locationOffsetBase = base])

\* What the end of a pan or of an animation leaves, but for a pan that was
\* prevented: a pan that starts no decay and a stopped animation merge the view
\* offset; a completed timing or spring animation is at its target, then
\* merges; a scroll without animation merges, then jumps to its offset.
ConcludedMerges ==
    /\ (PanEnds /\ ~PanPrevented /\ ~DecayStarts) => MergedFrom(_locationOffsetBase)
    /\ AnimationCompletes =>
          MergedFrom(IF _descelerationAnimation.kind = "decay"
                     THEN _locationOffsetBase
                     ELSE _descelerationAnimation.toValue)
    /\ AnimationStopped =>
          IF request'.op = "panStart" \/ request'.scroll.animated
          THEN MergedFrom(_locationOffsetBase)
          ELSE _viewOffset' = zeroPoint

\* C17 as stated: whenever a pan ends, prevented or not, or an animation
\* completes or is stopped, the view offset is merged into the base location.
\* It fails: a pan ended by preventDefaultPan keeps its view offset.
C17_Original ==
    [][ConcludedMerges /\ (PanPrevented => MergedFrom(_locationOffsetBase))]_vars

\* C17 amended: whenever a pan that was not prevented ends without starting a
\* decay, or an animation completes or is stopped, the view offset is merged
\* into the base location; a pan ended by preventDefaultPan leaves the view
\* offset and the base location as they are.
C17_ConcludedPanOrAnimationMerges ==
    [][ConcludedMerges /\ (PanPrevented => UNCHANGED <<_viewOffset, _locationOffsetBase>>)]_vars

\* A pan that had moved the view was released slowly: its offset is in the base.
C17_Witness ==
    /\ request.op = "panEnd"
    /\ request.point # zeroPoint
    /\ _descelerationAnimation.kind = "none"
    /\ _viewOffset = zeroPoint
    /\ _locationOffsetBase # zeroPoint

\* The places of the step's journal where an animation is started, is stopped
\* unfinished.
Starts == { k \in DOMAIN journal' : journal'[k].e = "start" }

Stops ==
    { k \in DOMAIN journal' :
        journal'[k].e = "stop" \/ (journal'[k].e = "callerOnEnd" /\ journal'[k].arg = 0) }

\* The animations running after the first k calls of the step's journal: the
\* one that ran before the step unless the step is its completion, plus those
\* started, minus those stopped.
AnimationsRunning(k) ==
    (IF _descelerationAnimation.running /\ request'.op # "animationEnd" THEN 1 ELSE 0)
    + Cardinality({ i \in Starts : i <= k }) - Cardinality({ i \in Stops : i <= k })

\* The step is a pan that begins or a scroll that is accepted while an
\* animation is running.
Interrupts ==
    /\ _descelerationAnimation.running
    /\ \/ request'.op = "panStart"
       \/ /\ request'.op \in {"scrollToOffset", "scrollBy"}
          /\ request'.scroll.offset.hasX \/ request'.scroll.offset.hasY
          /\ ~_panStarted

\* The place of the first call of the step's journal that is one of es, or
\* past the journal's end if there is none.
FirstOf(es) ==
    LET at == { k \in DOMAIN journal' : journal'[k].e \in es }
    IN IF at = {} THEN Len(journal') + 1
       ELSE CHOOSE k \in at : \A i \in at : k <= i

\* C18: at every moment of every operation at most one animation is running,
\* and the one running is the one the coordinator holds; a pan that begins or a
\* scroll that is accepted while an animation runs stops it, and its end
\* handler (_onEndDeceleration, which transfers the view offset and so updates,
\* then the onEnd given, with finished false; the caller's own for an animation
\* the caller started) has run before the pan or the scroll goes on to take
\* the interaction handle, start an animation or arm the long press timer.
C18_OneAnimationRunning ==
    [][(request.op = "none" /\ request'.op # "none") =>
         /\ \A k \in 0..Len(journal') : AnimationsRunning(k) \in {0, 1}
         /\ _descelerationAnimation'.running <=>
               AnimationsRunning(Len(journal')) + (IF request'.op = "start" THEN 1 ELSE 0) = 1
         /\ Interrupts =>
               /\ Cardinality(Stops) = 1
               /\ \A s \in Stops :
                     /\ s < FirstOf({"createInteractionHandle", "start", "setTimeout"})
                     /\ ~_descelerationAnimation.manual =>
                           /\ journal'[s].e = "stop"
                           /\ FirstOf({"update"}) \in
                                 (s + 1)..(FirstOf({"createInteractionHandle", "start", "setTimeout"}) - 1)
                     /\ (~_descelerationAnimation.manual /\ _descelerationAnimation.onEnd) =>
                           /\ FirstOf({"onEnd"}) \in
                                 (FirstOf({"update"}) + 1)..
                                 (FirstOf({"createInteractionHandle", "start", "setTimeout"}) - 1)
                           /\ journal'[FirstOf({"onEnd"})].arg = 0]_vars

\* A scroll was accepted while an animation was running: that one was stopped
\* and the scroll's own was started.
C18_Witness ==
    /\ request.op \in {"scrollToOffset", "scrollBy"}
    /\ Noted("stop") # {}
    /\ Noted("start") # {}
    /\ _descelerationAnimation.running

(***************************************************************************)
(* Properties of the layout source: its listeners.                         *)
(***************************************************************************)
\* The listeners of one configure(): one for each animated value, under the
\* ids given out after the id last.
ListenersAfter(last) ==
    { [sub |-> last + k, value |-> AnimatedValues[k]] : k \in 1..Len(AnimatedValues) }

\* The times willHideItem was called with the record id in the last operation.
TimesHidden(id) ==
    Cardinality({ k \in EventsOf("willHideItem") : trace[k].item = id })

\* C20: after configure() the animated values hold exactly the seven listeners
\* that call registered, one for each of itemSize, origin, scale and the four
\* insets, and the source has recorded exactly these; after unconfigure() they
\* hold none, the pool and the visible-index map are empty and willHideItem
\* was called once for each record that was visible and for no other; no
\* other operation changes the listeners.
C20_ListenersOfTheLastConfigure ==
    [][ /\ call'.op = "configure" =>
              /\ animatedListeners' = ListenersAfter(uniqueId)
              /\ _animatedSubscriptions' = animatedListeners'
        /\ call'.op = "unconfigure" =>
              /\ animatedListeners' = {}
              /\ _animatedSubscriptions' = {}
              /\ \A k \in ReuseIDs : _itemQueues'[k] = <<>>
              /\ VisibleKeys(visible') = {}
              /\ \A id \in ItemIds :
                    TimesHidden(id)' = IF id \in Range(visible) THEN 1 ELSE 0
        /\ call'.op \notin {"configure", "unconfigure"} =>
              /\ animatedListeners' = animatedListeners
              /\ _animatedSubscriptions' = _animatedSubscriptions ]_vars

\* unconfigure() of a source configured twice, with two records visible.
C20_Witness ==
    /\ call.op = "unconfigure"
    /\ uniqueId >= 2 * Len(AnimatedValues)
    /\ Cardinality(EventsOf("willHideItem")) = 2

(***************************************************************************)
(* Properties of the coordinator: the memory warning.                      *)
(***************************************************************************)
\* The step is the delivery of a memory warning by the host.
MemoryWarned == request.op = "none" /\ request'.op = "memoryWarning"

\* The registered sources, as a set.
Registered == { i \in SourceIds : Among(_layoutSources, i) }

\* The records the pool of source i holds.
Pooled(i) == QueuedIds(layoutSourceObjects[i].queues)

\* C19: a memory warning that arrives after componentDidMount leaves the pool
\* of every registered source empty; one that arrives after
\* componentWillUnmount changes no source and nothing of the coordinator; in
\* both cases the visible-index map of every source and the coordinator's
\* offsets, scale and animation are as they were.
C19_MemoryWarningClearsRegisteredPools ==
    [][ MemoryWarned =>
          /\ mounted = "mounted" => \A i \in Registered : Pooled(i)' = {}
          /\ mounted = "unmounted" =>
                /\ layoutSourceObjects' = layoutSourceObjects
                /\ UNCHANGED <<_updateDepth, _layoutSources, _memoryWarningListener,
                               memoryWarningHandlers, _interactionHandle, _panVelocty,
                               _longPressTimer>>
          /\ \A i \in SourceIds :
                layoutSourceObjects'[i].visible = layoutSourceObjects[i].visible
          /\ UNCHANGED <<_locationOffsetBase, locationOffsetBaseValue, _viewOffset,
                         viewOffsetValue, _scale, _anchor, _containerSize,
                         _descelerationAnimation>> ]_vars

\* A memory warning reached two registered sources of a mounted coordinator
\* that holds an animation; one of the sources keeps a visible record.
C19_Witness ==
    /\ request.op = "memoryWarning"
    /\ mounted = "mounted"
    /\ Cardinality({ k \in DOMAIN journal : journal[k].e = "clearQueue" }) = 2
    /\ \E i \in Registered : VisibleKeys(layoutSourceObjects[i].visible) # {}
    /\ _descelerationAnimation.running

(***************************************************************************)
(* Properties of the coordinator: the long press.                          *)
(***************************************************************************)
\* The step is the long press timer's callback, the gesture having moved no
\* further than longPressMaxDistance on either axis.
LongPressDue ==
    /\ request.op = "none"
    /\ request'.op = "longPress"
    /\ Abs(_pressInGestureState.x) <= kLongPressMaxDistance
    /\ Abs(_pressInGestureState.y) <= kLongPressMaxDistance

\* C21 as stated: the onLongPress callback given to the coordinator is called
\* exactly once when the timer of a press fires with the gesture within
\* longPressMaxDistance, and in no other operation.
\* It fails: the constructor copies only snapToLocation, onViewportSizeChanged
\* and onScaleChanged into this.callbacks, so the timer finds no onLongPress.
C21_LongPressCallsOnLongPress ==
    [][ (request.op = "none" /\ request'.op # "none" /\ options.onLongPress) =>
           Cardinality({ k \in DOMAIN journal' : journal'[k].e = "onLongPress" })
              = IF LongPressDue THEN 1 ELSE 0 ]_vars

(***************************************************************************)
(* Where a layout source with a sticky edge places its items.              *)
(***************************************************************************)

\* The source as it was when the last item layout was asked.
PlacedSource == [Source EXCEPT !.copies = placed.copies]

\* The container coordinate the sticky edge names: the top or left inset, or
\* the container size less the bottom or right inset.
EdgeCoordinate ==
    CASE props.stickyEdge = "top" -> placed.copies.insets.top
      [] props.stickyEdge = "left" -> placed.copies.insets.left
      [] props.stickyEdge = "bottom" -> _containerSize.y - placed.copies.insets.bottom
      [] props.stickyEdge = "right" -> _containerSize.x - placed.copies.insets.right
      [] OTHER -> 0

PinsY == props.stickyEdge \in {"top", "bottom"}

PinsX == props.stickyEdge \in {"left", "right"}

PinnedCoordinate == IF PinsY THEN placed.container.y ELSE placed.container.x

\* The source's origin on the pinned axis, in container units.
PinnedOrigin ==
    IF PinsY THEN placed.copies.origin.y * placed.copies.scale.y * _scale.y
    ELSE placed.copies.origin.x * placed.copies.scale.x * _scale.x

\* What the same source returns for the point when it has no sticky edge.
NotSticky ==
    getContainerLocation([PlacedSource EXCEPT !.props.stickyEdge = "undefined"], Layout,
                         placed.content.offset)

\* The other axis follows the normal transform; with no sticky edge both do.
FreeAxesFollow ==
    /\ ~PinsX => placed.container.x = NotSticky.x
    /\ ~PinsY => placed.container.y = NotSticky.y
    /\ props.stickyEdge = "undefined" =>
          \E other \in ContentLayouts :
             LET there == getContainerLocation(PlacedSource, Layout, other.offset)
             IN there.x # placed.container.x /\ there.y # placed.container.y

C23_PlainEqualsAnimated ==
    placed.done =>
       /\ placed.container = placed.containerValue
       /\ placed.view = placed.viewValue

(***************************************************************************)
(* The view layout of an item under a negative scale.                      *)
(***************************************************************************)

\* The effective scale the last item layout was asked under.
PlacedScale == Point(placed.copies.scale.x * _scale.x, placed.copies.scale.y * _scale.y)

\* One axis of the claim: at the container location `at` of the content
\* offset, a box of content size `size` under `scale` is laid out at `offset`
\* with extent `extent`.
FlippedInPlace(at, size, scale, offset, extent) ==
    /\ extent >= 0
    /\ extent = Abs(scale) * size
    /\ scale > 0 => offset = at
    /\ scale < 0 =>
          /\ offset = at - extent
          \* the interval of the flipped box, which runs from at to at + size * scale
          /\ offset = at + size * scale /\ offset + extent = at
          \* the rectangle of scale |scale| at the same location, moved back by its extent
          /\ offset = getItemViewLayout_axis(at, size * Abs(scale), Abs(scale)).offset - extent
          /\ extent = getItemViewLayout_axis(at, size * Abs(scale), Abs(scale)).size

\* C24: for every content layout with non-negative size and every non-zero
\* effective scale, getItemViewLayout returns on each axis a non-negative size
\* equal to |scale| times the content size, and on an axis with negative
\* scale the offset is the container location of the content offset less that
\* size: the rectangle covers the interval of the flipped box and is the
\* positive-scale rectangle of the same magnitude shifted by the box extent.
C24_NegativeScaleFlipsInPlace ==
    (placed.done /\ PlacedScale.x # 0 /\ PlacedScale.y # 0) =>
       /\ FlippedInPlace(placed.container.x, placed.content.size.x, PlacedScale.x,
                         placed.view.offset.x, placed.view.size.x)
       /\ FlippedInPlace(placed.container.y, placed.content.size.y, PlacedScale.y,
                         placed.view.offset.y, placed.view.size.y)

\* A box with an extent was laid out under a scale negative on x and positive
\* on y, by a configured source with an origin and insets.
C24_Witness ==
    /\ placed.done
    /\ PlacedScale.x < 0
    /\ PlacedScale.y > 0
    /\ placed.content.size.x > 0
    /\ placed.copies.origin # zeroPoint
    /\ placed.copies.insets # kZeroInsets
    /\ placed.view.offset.x = placed.container.x - placed.view.size.x
    /\ placed.view.offset.y = placed.container.y

(***************************************************************************)
(* The worked example of a grid item.                                      *)
(***************************************************************************)

\* The example: grid index {2,3}, item size {50,50}, origin {0,0}, source
\* scale {1,1}, zero insets, in a view of scale {1,1}, zero offsets, anchor
\* {0.5,0.5} (kept in halves) and container size {300,300}.
GridExample ==
    /\ placed.done
    /\ placed.grid
    /\ placed.index = Point(2, 3)
    /\ placed.copies = [itemSize |-> Point(50, 50), origin |-> zeroPoint,
                        scale |-> Point(1, 1), insets |-> kZeroInsets]
    /\ props.stickyEdge = "undefined"
    /\ _scale = Point(1, 1)
    /\ _locationOffsetBase = zeroPoint
    /\ _viewOffset = zeroPoint
    /\ _anchor = Point(1, 1)
    /\ _containerSize = Point(300, 300)

\* C25 as stated: content offset {100,150} and container offset {-50,0}.
C25_Original ==
    GridExample =>
       /\ placed.content.offset = Point(100, 150)
       /\ placed.container = Point(-50, 0)

\* C25: in the example the grid item has content offset {100,150} and
\* container offset {250,300}.
C25_GridItemExample ==
    GridExample =>
       /\ placed.content.offset = Point(100, 150)
       /\ placed.container = Point(250, 300)

\* The example was asked of a configured source.
C25_Witness ==
    /\ GridExample
    /\ call.op = "configure"
    /\ placed.container = Point(250, 300)

(***************************************************************************)
(* Scale emissions that are not a new, valid scale.                        *)
(***************************************************************************)

\* A scale no listener takes: a zero component, or the scale already cached.
NotANewScale(p, cached) == p.x = 0 \/ p.y = 0 \/ p = cached

\* The coordinator's scale$ emits request'.point.
CoordinatorScaleEmitted == request.op = "none" /\ request'.op = "scale"

\* The source's scale$ emits sourceValues'.scale.
SourceScaleEmitted == call.op = "none" /\ call'.op = "scale"

\* C26: whenever the coordinator's scale latch is set both components of its
\* cached scale are non-zero; a scale emission with a zero component, on the
\* coordinator or on a configured layout source, leaves the cached scale
\* unchanged and triggers no update and no onScaleChanged callback, and an
\* emission equal to the cached scale is ignored in the same way.
C26_InvalidScaleIgnored ==
    [][ /\ _hasScale' => (_scale'.x # 0 /\ _scale'.y # 0)
        /\ (CoordinatorScaleEmitted /\ NotANewScale(request'.point, _scale)) =>
              /\ _scale' = _scale
              /\ journal' = <<>>
              /\ UNCHANGED <<_updateDepth, _hasScale, _hasContainerSize, srcVars>>
        /\ (SourceScaleEmitted /\ NotANewScale(sourceValues'.scale, sourceCopies.scale)) =>
              /\ sourceCopies' = sourceCopies
              /\ trace' = <<>>
              /\ UNCHANGED <<visible, items, _itemQueues, _updating, needsRender, layoutVars>>
      ]_vars

\* The latch is set and the coordinator has just ignored a scale with a zero
\* component, its cached scale being one it took earlier; the configured
\* source ignored the same emission after taking a scale of its own.
C26_Witness ==
    /\ _hasScale
    /\ request.op = "scale"
    /\ request.point = Point(0, 2)
    /\ _scale = Point(2, -1)
    /\ journal = <<>>
    /\ \E l \in animatedListeners : l.value = "scale"
    /\ sourceValues.scale = Point(0, 2)
    /\ sourceCopies.scale = Point(2, -1)

(***************************************************************************)
(* The update state machine of a layout source: idle, updating, committed  *)
(* or cancelled, idle.                                                     *)
(***************************************************************************)

\* The begin, commit and cancel events of the calls at one depth of nesting,
\* in the order they happened.
UpdateMarks(d) ==
    SelectSeq(trace', LAMBDA ev : /\ ev.depth = d
                                  /\ ev.e \in {"beginUpdate", "commitUpdate", "cancelUpdate"})

\* Each call that began ended once before the next one at its depth began.
BeginsAndEndsPair(marks) ==
    /\ Len(marks) % 2 = 0
    /\ \A k \in DOMAIN marks :
          IF k % 2 = 1 THEN marks[k].e = "beginUpdate"
          ELSE marks[k].e \in {"commitUpdate", "cancelUpdate"}

\* C27: every updateItems call that starts with the source idle ends with the
\* source idle on every path (commit, abort because creation is disabled,
\* caught exception) and calls exactly one of commitUpdate or cancelUpdate,
\* exactly once.  The outer call is at depth 1; a call made from a callback
\* that got past beginUpdate found the source idle too.
C27_UpdateEndsIdleOnce ==
    [][ (call.op = "none" /\ call'.op = "updateItems" /\ ~_updating) =>
           /\ ~_updating'
           /\ ~call'.threw
           /\ Len(UpdateMarks(1)) = 2
           /\ \A d \in 1..MaxReentry + 1 : BeginsAndEndsPair(UpdateMarks(d)) ]_vars

\* An outer call ended in its catch block after a callback's nested call
\* threw, and cancelled once.
C27_Witness ==
    /\ call.op = "updateItems"
    /\ ~_updating
    /\ \E k \in DOMAIN trace : trace[k].e = "catch" /\ trace[k].depth = 1
    /\ Cardinality({ k \in DOMAIN trace : trace[k].e = "cancelUpdate" /\ trace[k].depth = 1 }) = 1
    /\ \A k \in DOMAIN trace : trace[k].e # "commitUpdate"

(***************************************************************************)
(* A gesture whose default pan was prevented.                              *)
(***************************************************************************)

\* A handler of the pan responder runs in this step.
Gesture(op) == request.op = "none" /\ request'.op = op

\* What the end of a prevented gesture may do: unlock the scroll, release the
\* interaction token, tell the press callbacks.
QuietEnd ==
    \A k \in DOMAIN journal' :
       journal'[k].e \in {"unlockScroll", "clearInteractionHandle", "onPressOut", "onPress"}

\* C28: after preventDefaultPan() is called during a gesture, move events up
\* to the end of that gesture change neither the pan target (view offset) nor
\* the pan velocity, and at gesture end no snapToLocation call, decay
\* animation or scroll animation is started and only the interaction token is
\* released; the prevention is cleared when the gesture ends, so the next
\* gesture pans normally.
C28_PreventedPanIsInert ==
    [][ /\ (Gesture("panMove") /\ _panDefaultPrevented) =>
              UNCHANGED <<panTargetValue, viewOffsetValue, _viewOffset, _panVelocty,
                          _panDefaultPrevented>>
        /\ (Gesture("panEnd") /\ _panDefaultPrevented) =>
              /\ QuietEnd
              /\ _interactionHandle' = 0
              /\ UNCHANGED <<_descelerationAnimation, panTargetValue, viewOffsetValue,
                             _viewOffset, _locationOffsetBase, locationOffsetBaseValue>>
        /\ Gesture("panEnd") => ~_panDefaultPrevented'
        /\ Gesture("panStart") => ~_panDefaultPrevented'
        /\ (Gesture("panMove") /\ ~_panDefaultPrevented) =>
              /\ (IF options.panTarget = "viewOffset" THEN viewOffsetValue'
                  ELSE panTargetValue') = request'.point
              /\ _panVelocty' = request'.velocity
      ]_vars

\* A move was ignored: the default pan was prevented after the gesture had
\* moved the view, and the next move left the pan target where it was.
C28_Witness ==
    /\ responder
    /\ request.op = "panMove"
    /\ _panDefaultPrevented
    /\ options.panTarget = "viewOffset"
    /\ viewOffsetValue # zeroPoint
    /\ viewOffsetValue # request.point
    /\ _panVelocty # request.velocity

(***************************************************************************)
(* A scroll on one axis and the content location of the other.             *)
(***************************************************************************)

\* scrollToOffset runs in this step, past its test of _panStarted, with an
\* offset for x only or for y only.
ScrollsOnlyX ==
    /\ Gesture("scrollToOffset")
    /\ ~_panStarted
    /\ request'.scroll.offset.hasX
    /\ ~request'.scroll.offset.hasY

ScrollsOnlyY ==
    /\ Gesture("scrollToOffset")
    /\ ~_panStarted
    /\ request'.scroll.offset.hasY
    /\ ~request'.scroll.offset.hasX

\* C29: scrollToOffset given only one axis leaves the content location (base
\* location offset + view offset / scale) of the other axis unchanged, also
\* when a decay animation still holds un-merged view offset: the view offset
\* is merged into the base before the target is determined, so the other
\* axis of an animation's target is the content location too.
C29_OtherAxisKeepsItsLocation ==
    [][ /\ ScrollsOnlyX =>
              /\ _locationOffsetBase'.y + Quotient(_viewOffset'.y, _scale'.y)
                    = _locationOffsetBase.y + Quotient(_viewOffset.y, _scale.y)
              /\ _descelerationAnimation'.kind \in {"spring", "timing"} =>
                    _descelerationAnimation'.toValue.y
                       = _locationOffsetBase.y + Quotient(_viewOffset.y, _scale.y)
        /\ ScrollsOnlyY =>
              /\ _locationOffsetBase'.x + Quotient(_viewOffset'.x, _scale'.x)
                    = _locationOffsetBase.x + Quotient(_viewOffset.x, _scale.x)
              /\ _descelerationAnimation'.kind \in {"spring", "timing"} =>
                    _descelerationAnimation'.toValue.x
                       = _locationOffsetBase.x + Quotient(_viewOffset.x, _scale.x)
      ]_vars

(***************************************************************************)
(* The end of a default pan that snaps.                                    *)
(***************************************************************************)

\* A default pan that was not prevented ends in this step.
DefaultPanEnds ==
    /\ Gesture("panEnd")
    /\ _panStarted
    /\ ~_panDefaultPrevented
    /\ options.panTarget = "viewOffset"

\* The content location and the content velocity the pan ends with.
EndLocation ==
    Point(_locationOffsetBase.x + Quotient(_viewOffset.x, _scale.x),
          _locationOffsetBase.y + Quotient(_viewOffset.y, _scale.y))

EndVelocity == Point(Quotient(_panVelocty.x, _scale.x), Quotient(_panVelocty.y, _scale.y))

Started(kind) ==
    /\ _descelerationAnimation'.kind = kind
    /\ _descelerationAnimation'.running
    /\ Cardinality({ k \in DOMAIN journal' : journal'[k].e = "start" }) = 1

\* C30: when a non-prevented default pan ends and snapToLocation returns a
\* target, exactly one animated spring scroll to that target (axes the
\* callback omitted are taken from the current content location) is started
\* with the measured content velocity as initial velocity, and no decay
\* animation is started; when it returns undefined, the decay-or-finalize
\* rule applies.
C30_SnapStartsOneSpring ==
    [][ /\ (DefaultPanEnds /\ request'.snap.defined) =>
              /\ Started("spring")
              /\ _descelerationAnimation'.toValue
                    = Point(IF request'.snap.to.hasX THEN request'.snap.to.x
                            ELSE EndLocation.x,
                            IF request'.snap.to.hasY THEN request'.snap.to.y
                            ELSE EndLocation.y)
              /\ _descelerationAnimation'.velocity = EndVelocity
        /\ (DefaultPanEnds /\ ~request'.snap.defined) =>
              IF Abs(_panVelocty.x) < kPanSpeedMin /\ Abs(_panVelocty.y) < kPanSpeedMin
              THEN /\ _descelerationAnimation' = NoAnimation
                   /\ { k \in DOMAIN journal' : journal'[k].e = "start" } = {}
                   /\ _viewOffset' = zeroPoint
                   /\ _locationOffsetBase' = EndLocation
              ELSE /\ Started("decay")
                   /\ _descelerationAnimation'.velocity = _panVelocty
      ]_vars

\* A pan that had moved the content on both axes ended with a velocity, the
\* callback gave a target for x only, and a spring runs to that x and the
\* content location's y.
C30_Witness ==
    /\ request.op = "panEnd"
    /\ request.snap.defined
    /\ ~request.snap.to.hasY
    /\ request.velocity # zeroPoint
    /\ _descelerationAnimation.kind = "spring"
    /\ _descelerationAnimation.running
    /\ _descelerationAnimation.toValue.y # 0
    /\ _descelerationAnimation.velocity # zeroPoint
    /\ Noted("snapToLocation") # {}

(***************************************************************************)
(* shouldRenderItem and the render nonce of a reused record.               *)
(***************************************************************************)

\* updateItems runs in this step.
Updates == call.op = "none" /\ call'.op = "updateItems"

\* The records the operation took from a pool, and those it created, in the
\* order it did.
Reused == SelectSeq(trace', LAMBDA ev : ev.e = "dequeueItem")

Created == SelectSeq(trace', LAMBDA ev : ev.e = "createItem")

\* shouldRenderItem was asked once for each reuse, in order, with the record
\* and its index and content layout from before the reuse, and not for a
\* record created.
AskedOncePerReuse ==
    /\ Len(renders') = Len(Reused)
    /\ \A k \in DOMAIN renders' :
          /\ renders'[k].item = Reused[k].item
          /\ renders'[k].previous = [index |-> items[renders'[k].item].index,
                                     contentLayout |-> items[renders'[k].item].contentLayout]
    /\ \A k \in DOMAIN Created :
          /\ \A j \in DOMAIN renders' : renders'[j].item # Created[k].item
          /\ items'[Created[k].item].renderNonce = 0

\* C31: shouldRenderItem is invoked exactly once for each reuse of a pooled
\* record (with the record and its previous index and content layout) and
\* never when a record is created; the record's render nonce is changed if
\* and only if shouldRenderItem returned true.
C31_RenderNonceFollowsShouldRender ==
    [][ Updates =>
           /\ AskedOncePerReuse
           /\ \A k \in DOMAIN renders' :
                 (items'[renders'[k].item].renderNonce # items[renders'[k].item].renderNonce)
                    <=> renders'[k].returned ]_vars

(***************************************************************************)
(* The opacity the layout source gives a record.                           *)
(***************************************************************************)

\* Every record held in a pool has opacity 0.
PooledTransparent ==
    \A k \in ReuseIDs : \A n \in DOMAIN _itemQueues[k] :
        items[_itemQueues[k][n]].opacity = 0

\* The records the operation of this step showed by reuse or in its pass over
\* all visible records.
ShownAgain ==
    { trace'[n].item : n \in { m \in DOMAIN trace' : trace'[m].e \in {"dequeueItem", "updateItem"} } }

\* The records the operation of this step created.
ShownNew ==
    { trace'[n].item : n \in { m \in DOMAIN trace' : trace'[m].e = "createItem" } }

\* C32: every record held in a pool has opacity 0; a record shown by reuse or
\* by the pass over all visible records has opacity 1 when the operation ends;
\* a record created has opacity 1 when showDuration <= 0 and is left at 0 when
\* showDuration > 0.
C32_OpacityOfRecords ==
    [][ /\ PooledTransparent'
        /\ \A item \in ShownAgain \ ShownNew : items'[item].opacity = 1
        /\ \A item \in ShownNew :
              items'[item].opacity = IF props.showDuration <= 0 THEN 1 ELSE 0 ]_vars

(***************************************************************************)
(* The order in which a pool gives its records back.                       *)
(***************************************************************************)

\* dequeueItem(index) runs in this step and finds a record in the pool of the
\* reuse ID of its index.
DequeuesPooled ==
    /\ call.op = "none" /\ call'.op = "dequeueItem"
    /\ _itemQueues[getReuseID(Source, call'.index)] # <<>>

\* The pool of the index of this step's operation, before the step.
PoolBefore == _itemQueues[getReuseID(Source, call'.index)]

\* queueItem(index) runs in this step and retires a record that has a reuse ID.
RetiresToPool ==
    /\ call.op = "none" /\ call'.op = "queueItem"
    /\ visible[call'.index] # undefined
    /\ items[visible[call'.index]].reuseID # ""

\* C35: queueItem pushes the record it retires at the end of the pool of its
\* reuse ID, and dequeueItem returns the last record of the pool of the reuse
\* ID of its index and leaves the others in their order; so of two records
\* retired one after the other under one reuse ID, the next two dequeues
\* return the second and then the first.
C35_DequeueIsLastInFirstOut ==
    [][ /\ RetiresToPool =>
              _itemQueues'[items[visible[call'.index]].reuseID]
                 = Append(_itemQueues[items[visible[call'.index]].reuseID],
                          visible[call'.index])
        /\ DequeuesPooled =>
              /\ call'.ret = PoolBefore[Len(PoolBefore)]
              /\ _itemQueues'[getReuseID(Source, call'.index)]
                    = SubSeq(PoolBefore, 1, Len(PoolBefore) - 1) ]_vars

\* Two records were retired under one reuse ID and the first dequeue has
\* returned the one retired last.
C35_Witness ==
    /\ call.op = "dequeueItem"
    /\ call.ret # undefined
    /\ \E k \in ReuseIDs : _itemQueues[k] # <<>> /\ _itemQueues[k][1] # call.ret

(***************************************************************************)
(* An operation of itemUpdates() that carries a removal and an addition.   *)
(***************************************************************************)

\* The operations of this step's updateItems that carry both indexes.
Paired ==
    { k \in DOMAIN call'.ops :
         call'.ops[k].remove # undefined /\ call'.ops[k].add # undefined }

\* The update of this step ran to its commit.
RanToCommit == \E n \in DOMAIN trace' : trace'[n].e = "commitUpdate"

\* C39: in updateItems with queueing enabled, an operation that carries both a
\* remove index and an add index retires the removed index and also shows the
\* added index (in an update that ran to its commit).
C39_PairedOperationRetiresAndShows ==
    [][ (Updates /\ call'.opts.queue /\ RanToCommit) =>
           \A k \in Paired :
              /\ visible'[call'.ops[k].remove] = undefined
              /\ visible'[call'.ops[k].add] # undefined ]_vars

(***************************************************************************)
(* setNeedsUpdate of a layout source and the view's needsRender.           *)
(***************************************************************************)

\* A call of setNeedsUpdate without force, or with it, is this step.
AsksUpdate == call.op = "none" /\ call'.op = "setNeedsUpdate"

ForcesUpdate == call.op = "none" /\ call'.op = "setNeedsUpdate force"

\* C34: setNeedsUpdate without force does nothing to the items while
\* view.needsRender is true (no retire, dequeue, create or callback, which all
\* leave an event), and needsRender stays true, so that the calls after it do
\* nothing either; a forced call always runs updateItems.
C34_NeedsRenderHoldsUpdatesBack ==
    [][ /\ (AsksUpdate /\ needsRender) =>
              /\ trace' = <<>>
              /\ UNCHANGED <<visible, items, _itemQueues, _updating, needsRender>>
        /\ ForcesUpdate =>
              /\ trace' # <<>>
              /\ trace'[1].e \in {"beginUpdate", "throw Already updating"} ]_vars

\* A call without force has just done nothing although the visible set was
\* to change, the view being about to render.
C34_Witness ==
    /\ call.op = "setNeedsUpdate"
    /\ needsRender
    /\ call.target # VisibleKeys(visible)
    /\ trace = <<>>

(***************************************************************************)
(* The long press timer.                                                   *)
(***************************************************************************)

\* C33: at most one long press timer is pending at any time; a press start
\* leaves exactly one pending, the one it armed, having cleared the one
\* pending before it; after a press end none is pending; so the timer's
\* callback, and onLongPress with it, runs only while the press that armed the
\* timer is held.
C33_OneLongPressTimer ==
    [][ /\ longPressTimers' <= 1
        /\ (longPressTimers' = 1) <=> (_longPressTimer' = "pending")
        /\ Gesture("panStart") => longPressTimers' = 1
        /\ Gesture("panEnd") => longPressTimers' = 0
        /\ Gesture("longPress") => responder ]_vars

\* A touch started while a timer was pending: the timer was cleared and the
\* one armed for the new touch is the only one pending.
C33_Witness ==
    /\ request.op = "panStart"
    /\ \E k \in DOMAIN journal : journal[k].e = "clearTimeout"
    /\ longPressTimers = 1

(***************************************************************************)
(* The interaction token.                                                  *)
(***************************************************************************)

\* A gesture is in progress, or an animation the coordinator started itself is
\* running.
InteractionInProgress ==
    \/ responder
    \/ _descelerationAnimation.running /\ ~_descelerationAnimation.manual

\* C36: an interaction token is held if and only if a gesture is in progress
\* or an animation started by the coordinator is running, for the default pan
\* target and for a custom one alike.
C36_TokenHeldWhileInteracting == (_interactionHandle # 0) <=> InteractionInProgress

(***************************************************************************)
(* The start of a pan and the content location.                            *)
(***************************************************************************)

\* The content location: base location offset + view offset / scale.
ContentLocation ==
    Point(_locationOffsetBase.x + Quotient(_viewOffset.x, _scale.x),
          _locationOffsetBase.y + Quotient(_viewOffset.y, _scale.y))

\* C37: the start of a pan gesture leaves the content location as it was,
\* whether the gesture before it ended in a decay, in an immediate finalize
\* or after preventDefaultPan.
C37_PanStartKeepsLocation ==
    [][ Gesture("panStart") => ContentLocation' = ContentLocation ]_vars

(***************************************************************************)
(* scrollBy and the content location.                                      *)
(***************************************************************************)

\* scrollBy runs in this step, not animated, with an offset on some axis and
\* no pan started.
ScrollsByAtOnce ==
    /\ Gesture("scrollBy")
    /\ ~_panStarted
    /\ ~request'.scroll.animated
    /\ request'.scroll.offset.hasX \/ request'.scroll.offset.hasY

\* The offset asked of this step's scroll, zero on an axis not given.
AskedOffset ==
    Point(IF request'.scroll.offset.hasX THEN request'.scroll.offset.x ELSE 0,
          IF request'.scroll.offset.hasY THEN request'.scroll.offset.y ELSE 0)

\* C38: a scrollBy that is not animated changes the content location by
\* exactly the offset given on the axes given and not at all on the others,
\* also while a decay animation is in flight.
C38_ScrollByMovesByOffset ==
    [][ ScrollsByAtOnce =>
           ContentLocation' = Point(ContentLocation.x + AskedOffset.x,
                                    ContentLocation.y + AskedOffset.y) ]_vars

(***************************************************************************)
(* The plain snapshots and the animated values they mirror.                *)
(***************************************************************************)

\* C40: between the operations, when no listener is running, the plain view
\* offset equals the value of viewOffset$ and the plain base location offset
\* equals the value of _locationOffsetBase$.
C40_SnapshotsEqualAnimatedValues ==
    /\ _viewOffset = viewOffsetValue
    /\ _locationOffsetBase = locationOffsetBaseValue

====
